---- MODULE Spec2Model ----
(***************************************************************************)
(* Model of the Euclid archive client (astroquery/esa/euclid/core.py):     *)
(* the three-endpoint session coordinator (login, login_gui, logout), the  *)
(* product-listing request validation (get_product_list) and the cutout    *)
(* request validation (get_cutout) with the retrieval pipeline behind it:   *)
(* output path resolution, transfer, error classification and archive      *)
(* normalization.                                                          *)
(*                                                                         *)
(* Every public method is one action: the whole handler runs atomically    *)
(* and leaves behind the request it was given (req), what it handed back   *)
(* to the caller (outcome), the calls it made on its collaborators in      *)
(* order (trace) and the lines it wrote with log.error (errors).           *)
(***************************************************************************)
EXTENDS Integers, Sequences, FiniteSets, TLC

VARIABLES
    auth,      \* authentication state of each endpoint session
    pre,       \* auth as it was when the last call started (history)
    req,       \* the last call: its name and arguments
    outcome,   \* how the last call ended for the caller
    trace,     \* collaborator calls made by the last call, in order
    errors,    \* log.error lines written by the last call, in order
    fs,        \* the local filesystem: its directories and its files
    prefs      \* fs as it was when the last call started (history)

vars == <<auth, pre, req, outcome, trace, errors, fs, prefs>>

----------------------------------------------------------------------------
(* Values shared by all operations                                         *)

None == "None"

Endpoints == {"catalog", "data", "cutout"}
Siblings  == {"data", "cutout"}

Anon  == "anonymous"
Users == {"alice", "bob"}

Returned(v)  == [kind |-> "returned", value |-> v]
Raised(e, m) == [kind |-> "raised", exc |-> e, msg |-> m]
NoOutcome    == [kind |-> "none"]

\* one call on an endpoint session: its login or logout, and whether it
\* succeeded (ok = FALSE: it raised HTTPError)
Ev(e, c, ok) == [ep |-> e, call |-> c, ok |-> ok]

Has(t, ev) == \E i \in 1..Len(t) : t[i] = ev

Attempted(t, e, c) == \E i \in 1..Len(t) : t[i].ep = e /\ t[i].call = c

----------------------------------------------------------------------------
(* Endpoint sessions (TapPlus): the base class is outside the sources      *)

\* a login that succeeds authenticates the session as `user`; a login that
\* fails raises HTTPError and leaves the session anonymous
EndpointLogin(a, e, user, ok) ==
    [a EXCEPT ![e] = IF ok THEN user ELSE Anon]

\* a logout that succeeds leaves the session anonymous; a logout that fails
\* raises HTTPError before the session state is changed
EndpointLogout(a, e, ok) ==
    IF ok THEN [a EXCEPT ![e] = Anon] ELSE a

----------------------------------------------------------------------------
(* Session coordinator                                                     *)

Run(a, t, errs, out) == [auth |-> a, trace |-> t, errors |-> errs, outcome |-> out]

ErrTapLogin      == "Error logging in TAP server"
ErrSiblingsLogin == "Error logging in data or cutout services"
ErrDataLogin     == "Error logging in data server"
ErrCutoutLogin   == "Error logging in cutout server"
ErrRollback      == "Logging out from TAP server"
ErrTapLogout     == "Error logging out TAP server"
ErrDataLogout    == "Error logging out data server"
ErrCutoutLogout  == "Error logging out cutout server"

HTTPError == "HTTPError"

\* Rollback with the error raised again after the catalog logout
RollbackReraise(a, t, errs, firstErr, rbOk) ==
    Run(EndpointLogout(a, "catalog", rbOk),
        Append(t, Ev("catalog", "logout", rbOk)),
        errs \o <<firstErr, ErrRollback>>,
        Raised(HTTPError, "login"))

\* the except clause shared by the sibling logins: log, then TapPlus.logout
\* on the catalog session, outside any try block
Rollback(a, t, errs, firstErr, rbOk) ==
    LET t2 == Append(t, Ev("catalog", "logout", rbOk))
        a2 == EndpointLogout(a, "catalog", rbOk)
        e2 == errs \o <<firstErr, ErrRollback>>
    IN  Run(a2, t2, e2, IF rbOk THEN Returned(None) ELSE Raised(HTTPError, "logout"))

\* login without the return that follows a failed catalog login
LoginRunNoReturn(a, user, catOk, dataOk, cutOk, rbOk) ==
    LET a1 == EndpointLogin(a, "catalog", user, catOk)
        t1 == <<Ev("catalog", "login", catOk)>>
        e1 == IF catOk THEN <<>> ELSE <<ErrTapLogin>>
        a2 == EndpointLogin(a1, "data", user, dataOk)
        t2 == Append(t1, Ev("data", "login", dataOk))
    IN  IF ~dataOk
        THEN Rollback(a2, t2, e1, ErrSiblingsLogin, rbOk)
        ELSE LET a3 == EndpointLogin(a2, "cutout", user, cutOk)
                 t3 == Append(t2, Ev("cutout", "login", cutOk))
             IN  IF ~cutOk
                 THEN Rollback(a3, t3, e1, ErrSiblingsLogin, rbOk)
                 ELSE Run(a3, t3, e1, Returned(None))

\* EuclidClass.login
LoginRun(a, user, catOk, dataOk, cutOk, rbOk) ==
    LET a1 == EndpointLogin(a, "catalog", user, catOk)
        t1 == <<Ev("catalog", "login", catOk)>>
    IN  IF ~catOk
        THEN Run(a1, t1, <<ErrTapLogin>>, Returned(None))
        ELSE LET a2 == EndpointLogin(a1, "data", user, dataOk)
                 t2 == Append(t1, Ev("data", "login", dataOk))
             IN  IF ~dataOk
                 THEN Rollback(a2, t2, <<>>, ErrSiblingsLogin, rbOk)
                 ELSE LET a3 == EndpointLogin(a2, "cutout", user, cutOk)
                          t3 == Append(t2, Ev("cutout", "login", cutOk))
                      IN  IF ~cutOk
                          THEN Rollback(a3, t3, <<>>, ErrSiblingsLogin, rbOk)
                          ELSE Run(a3, t3, <<>>, Returned(None))

\* login_gui with the two sibling logins in one try block, as in login
LoginGuiRunOneTry(a, user, catOk, dataOk, cutOk, rbOk1, rbOk2) ==
    LET a1 == EndpointLogin(a, "catalog", user, catOk)
        t1 == <<Ev("catalog", "login", catOk)>>
    IN  IF ~catOk
        THEN Run(a1, t1, <<ErrTapLogin>>, Returned(None))
        ELSE LET a2 == EndpointLogin(a1, "data", user, dataOk)
                 t2 == Append(t1, Ev("data", "login", dataOk))
             IN  IF ~dataOk
                 THEN Rollback(a2, t2, <<>>, ErrDataLogin, rbOk1)
                 ELSE LET a3 == EndpointLogin(a2, "cutout", user, cutOk)
                          t3 == Append(t2, Ev("cutout", "login", cutOk))
                      IN  IF cutOk
                          THEN Run(a3, t3, <<>>, Returned(None))
                          ELSE Rollback(a3, t3, <<>>, ErrCutoutLogin, rbOk2)

\* EuclidClass.login_gui
LoginGuiRun(a, user, catOk, dataOk, cutOk, rbOk1, rbOk2) ==
    LET a1 == EndpointLogin(a, "catalog", user, catOk)
        t1 == <<Ev("catalog", "login", catOk)>>
    IN  IF ~catOk
        THEN Run(a1, t1, <<ErrTapLogin>>, Returned(None))
        ELSE LET a2 == EndpointLogin(a1, "data", user, dataOk)
                 t2 == Append(t1, Ev("data", "login", dataOk))
                 r2 == IF dataOk
                       THEN Run(a2, t2, <<>>, Returned(None))
                       ELSE Rollback(a2, t2, <<>>, ErrDataLogin, rbOk1)
             IN  IF r2.outcome.kind = "raised"
                 THEN r2
                 ELSE LET a3 == EndpointLogin(r2.auth, "cutout", user, cutOk)
                          t3 == Append(r2.trace, Ev("cutout", "login", cutOk))
                      IN  IF cutOk
                          THEN Run(a3, t3, r2.errors, Returned(None))
                          ELSE Rollback(a3, t3, r2.errors, ErrCutoutLogin, rbOk2)

\* logout with a return after a failed data logout, as after a failed
\* catalog logout
LogoutRunStopAfterData(a, catOk, dataOk, cutOk) ==
    LET a1 == EndpointLogout(a, "catalog", catOk)
        t1 == <<Ev("catalog", "logout", catOk)>>
    IN  IF ~catOk
        THEN Run(a1, t1, <<ErrTapLogout, ErrTapLogout>>, Returned(None))
        ELSE LET a2 == EndpointLogout(a1, "data", dataOk)
                 t2 == Append(t1, Ev("data", "logout", dataOk))
             IN  IF ~dataOk
                 THEN Run(a2, t2, <<ErrDataLogout, ErrDataLogout>>, Returned(None))
                 ELSE Run(EndpointLogout(a2, "cutout", cutOk),
                          Append(t2, Ev("cutout", "logout", cutOk)),
                          IF cutOk THEN <<>> ELSE <<ErrCutoutLogout>>,
                          Returned(None))

\* logout with the catalog logout outside its try block
LogoutRunUnguarded(a, catOk, dataOk, cutOk) ==
    LET a1 == EndpointLogout(a, "catalog", catOk)
        t1 == <<Ev("catalog", "logout", catOk)>>
    IN  IF ~catOk
        THEN Run(a1, t1, <<>>, Raised(HTTPError, "logout"))
        ELSE LET a2 == EndpointLogout(a1, "data", dataOk)
                 t2 == Append(t1, Ev("data", "logout", dataOk))
                 e2 == IF dataOk THEN <<>> ELSE <<ErrDataLogout, ErrDataLogout>>
                 a3 == EndpointLogout(a2, "cutout", cutOk)
                 t3 == Append(t2, Ev("cutout", "logout", cutOk))
                 e3 == IF cutOk THEN e2 ELSE Append(e2, ErrCutoutLogout)
             IN  Run(a3, t3, e3, Returned(None))

\* EuclidClass.logout
LogoutRun(a, catOk, dataOk, cutOk) ==
    LET a1 == EndpointLogout(a, "catalog", catOk)
        t1 == <<Ev("catalog", "logout", catOk)>>
    IN  IF ~catOk
        THEN Run(a1, t1, <<ErrTapLogout, ErrTapLogout>>, Returned(None))
        ELSE LET a2 == EndpointLogout(a1, "data", dataOk)
                 t2 == Append(t1, Ev("data", "logout", dataOk))
                 e2 == IF dataOk THEN <<>> ELSE <<ErrDataLogout, ErrDataLogout>>
                 a3 == EndpointLogout(a2, "cutout", cutOk)
                 t3 == Append(t2, Ev("cutout", "logout", cutOk))
                 e3 == IF cutOk THEN e2 ELSE Append(e2, ErrCutoutLogout)
             IN  Run(a3, t3, e3, Returned(None))

Finish(rq, r) ==
    /\ pre' = auth
    /\ auth' = r.auth
    /\ req' = rq
    /\ outcome' = r.outcome
    /\ trace' = r.trace
    /\ errors' = r.errors
    /\ fs' = fs
    /\ prefs' = fs

Login ==
    \E user \in Users, catOk, dataOk, cutOk, rbOk \in BOOLEAN :
        Finish([op |-> "login"], LoginRun(auth, user, catOk, dataOk, cutOk, rbOk))

LoginGui ==
    \E user \in Users, catOk, dataOk, cutOk, rbOk1, rbOk2 \in BOOLEAN :
        Finish([op |-> "login_gui"], LoginGuiRun(auth, user, catOk, dataOk, cutOk, rbOk1, rbOk2))

Logout ==
    \E catOk, dataOk, cutOk \in BOOLEAN :
        Finish([op |-> "logout"], LogoutRun(auth, catOk, dataOk, cutOk))


----------------------------------------------------------------------------
(* Product listing: get_product_list                                       *)

ValueError == "ValueError"

ERROR_MSG_REQUESTED_OBSERVATION_ID == "Missing required argument: 'observation_id'"
ERROR_MSG_REQUESTED_TILE_ID == "Missing required argument: 'tile_id'"
ERROR_MSG_REQUESTED_OBSERVATION_ID_AND_TILE_ID ==
    "Incompatible: 'observation_id' and 'tile_id'. Use only one."
ERROR_MSG_REQUESTED_PRODUCT_TYPE == "Missing required argument: 'product_type'"
ERROR_MSG_REQUESTED_GENERIC == "Missing required argument"
ERROR_MSG_REQUESTED_RADIUS == "Radius cannot be greater than 30 arcminutes"
ERROR_MSG_BOTH_MISSING ==
    "Missing required argument: 'observation_id'; Missing required argument: 'tile_id'"
ERROR_MSG_INVALID_PRODUCT_TYPE == "Invalid product type"

\* the product types the caller can pass: one representative of each product
\* list of the configuration, and one name that is in no list
ProductTypes == {
    "DpdVisStackedFrame", "dpdPhzPfOutputCatalog", "DpdMerSegmentationMap",
    "dpdNispRawFrame", "DpdVisRawFrame", "DpdVisCalibratedQuadFrame",
    "DpdVisCalibratedFrameCatalog", "DpdSirCombinedSpectra", "dpdSirScienceFrame",
    "DpdMerBksMosaic", "NoSuchProduct" }

\* the product lists of the configuration that contain a product type
ConfLists(pt) ==
    CASE pt = "DpdVisStackedFrame"           -> {"OBSERVATION_STACK_PRODUCTS"}
      [] pt = "dpdPhzPfOutputCatalog"        -> {"BASIC_DOWNLOAD_DATA_PRODUCTS"}
      [] pt = "DpdMerSegmentationMap"        -> {"MER_SEGMENTATION_MAP_PRODUCTS"}
      [] pt = "dpdNispRawFrame"              -> {"RAW_FRAME_PRODUCTS"}
      [] pt = "DpdVisRawFrame"               -> {"RAW_FRAME_PRODUCTS"}
      [] pt = "DpdVisCalibratedQuadFrame"    -> {"CALIBRATED_FRAME_PRODUCTS"}
      [] pt = "DpdVisCalibratedFrameCatalog" -> {"FRAME_CATALOG_PRODUCTS"}
      [] pt = "DpdSirCombinedSpectra"        -> {"COMBINED_SPECTRA_PRODUCTS"}
      [] pt = "dpdSirScienceFrame"           -> {"SIR_SCIENCE_FRAME_PRODUCTS"}
      [] pt = "DpdMerBksMosaic"              -> {"MOSAIC_PRODUCTS"}
      [] OTHER                               -> {}

ObservationIds == {"13"}
TileIndexes    == {"102018211"}

\* the chain of `if product_type in conf.X` statements: each one that
\* matches overwrites the query, so the last match in the chain decides
RECURSIVE LastMatch(_, _, _)
LastMatch(chain, pt, found) ==
    IF chain = <<>> THEN found
    ELSE LastMatch(Tail(chain), pt,
                   IF Head(chain).list \in ConfLists(pt) THEN Head(chain).table ELSE found)

ObservationChain == <<
    [list |-> "OBSERVATION_STACK_PRODUCTS",    table |-> "sedm.observation_stack"],
    [list |-> "BASIC_DOWNLOAD_DATA_PRODUCTS",  table |-> "sedm.basic_download_data"],
    [list |-> "MER_SEGMENTATION_MAP_PRODUCTS", table |-> "sedm.mer_segmentation_map"],
    [list |-> "RAW_FRAME_PRODUCTS",            table |-> "sedm.raw_frame"],
    [list |-> "CALIBRATED_FRAME_PRODUCTS",     table |-> "sedm.calibrated_frame"],
    [list |-> "FRAME_CATALOG_PRODUCTS",        table |-> "sedm.frame_catalog"],
    [list |-> "COMBINED_SPECTRA_PRODUCTS",     table |-> "sedm.combined_spectra"],
    [list |-> "SIR_SCIENCE_FRAME_PRODUCTS",    table |-> "sedm.sir_science_frame"] >>

TileChain == <<
    [list |-> "MOSAIC_PRODUCTS",               table |-> "sedm.mosaic_product"],
    [list |-> "BASIC_DOWNLOAD_DATA_PRODUCTS",  table |-> "sedm.basic_download_data"],
    [list |-> "COMBINED_SPECTRA_PRODUCTS",     table |-> "sedm.combined_spectra"],
    [list |-> "MER_SEGMENTATION_MAP_PRODUCTS", table |-> "sedm.mer_segmentation_map"] >>

\* the second condition of the WHERE clause: the raw-frame and science-frame
\* queries select on the instrument, every other query on the product type
InstrumentName(pt) == IF pt = "dpdNispRawFrame" THEN "NISP" ELSE "VIS"

NoQuery == [table |-> None]

ObservationQuery(observation_id, pt) ==
    LET table == LastMatch(ObservationChain, pt, None)
    IN  IF table = None THEN NoQuery
        ELSE [table |-> table, key |-> "observation_id", id |-> observation_id,
              filter |-> CASE table = "sedm.raw_frame" -> InstrumentName(pt)
                           [] table = "sedm.sir_science_frame" -> "NISP"
                           [] OTHER -> pt]

TileQuery(tile_index, pt) ==
    LET table == LastMatch(TileChain, pt, None)
    IN  IF table = None THEN NoQuery
        ELSE [table |-> table, key |-> "tile_index", id |-> tile_index, filter |-> pt]

\* super().launch_job(query, output_format='votable_plain',
\* format_with_results_compressed=('votable_gzip',)) on the catalog session
JobEv(q, ok) ==
    [ep |-> "catalog", call |-> "launch_job", ok |-> ok, query |-> q,
     output_format |-> "votable_plain", compressed |-> "votable_gzip"]

\* launch the job and hand back job.get_results(); neither method has a try
\* block around the launch, so an HTTPError of the job executor propagates
LaunchAndGetResults(q, jobOk) ==
    Run(auth, <<JobEv(q, jobOk)>>, <<>>,
        IF jobOk THEN Returned("table") ELSE Raised(HTTPError, "launch_job"))

Fail(exc, msg) == Run(auth, <<>>, <<>>, Raised(exc, msg))

\* EuclidClass.__get_tile_catalogue_list
TileCatalogueListRun(tile_index, product_type, jobOk) ==
    IF tile_index = None THEN Fail(ValueError, ERROR_MSG_REQUESTED_TILE_ID)
    ELSE IF product_type = None THEN Fail(ValueError, ERROR_MSG_REQUESTED_PRODUCT_TYPE)
    ELSE LET q == TileQuery(tile_index, product_type)
         IN  IF q.table = None THEN Fail(ValueError, ERROR_MSG_INVALID_PRODUCT_TYPE)
             ELSE LaunchAndGetResults(q, jobOk)

\* get_product_list without the test that rejects two identifiers
ProductListRunNoExclusion(observation_id, tile_index, product_type, jobOk) ==
    IF product_type = None THEN Fail(ValueError, ERROR_MSG_REQUESTED_PRODUCT_TYPE)
    ELSE IF observation_id = None /\ tile_index = None
    THEN Fail(ValueError, ERROR_MSG_BOTH_MISSING)
    ELSE IF tile_index # None
    THEN TileCatalogueListRun(tile_index, product_type, jobOk)
    ELSE LET q == ObservationQuery(observation_id, product_type)
         IN  IF q.table = None THEN Fail(ValueError, ERROR_MSG_INVALID_PRODUCT_TYPE)
             ELSE LaunchAndGetResults(q, jobOk)

\* EuclidClass.get_product_list
ProductListRun(observation_id, tile_index, product_type, jobOk) ==
    IF product_type = None THEN Fail(ValueError, ERROR_MSG_REQUESTED_PRODUCT_TYPE)
    ELSE IF observation_id # None /\ tile_index # None
    THEN Fail(ValueError, ERROR_MSG_REQUESTED_OBSERVATION_ID_AND_TILE_ID)
    ELSE IF observation_id = None /\ tile_index = None
    THEN Fail(ValueError, ERROR_MSG_BOTH_MISSING)
    ELSE IF tile_index # None
    THEN TileCatalogueListRun(tile_index, product_type, jobOk)
    ELSE LET q == ObservationQuery(observation_id, product_type)
         IN  IF q.table = None THEN Fail(ValueError, ERROR_MSG_INVALID_PRODUCT_TYPE)
             ELSE LaunchAndGetResults(q, jobOk)

GetProductList ==
    \E observation_id \in ObservationIds \cup {None},
       tile_index \in TileIndexes \cup {None},
       product_type \in ProductTypes \cup {None},
       jobOk \in BOOLEAN :
        Finish([op |-> "get_product_list", observation_id |-> observation_id,
                tile_index |-> tile_index, product_type |-> product_type],
               ProductListRun(observation_id, tile_index, product_type, jobOk))


----------------------------------------------------------------------------
(* Local filesystem: a path is the sequence of its components              *)

PlainFile == [kind |-> "plain", members |-> {}]

EmptyFs == [dirs |-> {}, files |-> <<>>]

Basename(p) == p[Len(p)]
Dirname(p)  == SubSeq(p, 1, Len(p) - 1)
Join(d, rel) == d \o rel

\* p lies under directory d, at any depth
Under(p, d) == Len(p) > Len(d) /\ SubSeq(p, 1, Len(d)) = d

Ancestors(d) == {SubSeq(d, 1, n) : n \in 1..Len(d)}

Exists(f, p) == p \in DOMAIN f.files

\* os.makedirs(d, exist_ok=True)
MakeDirs(f, d) == [f EXCEPT !.dirs = @ \cup Ancestors(d)]

\* create the file p with content c, or overwrite it
WriteFile(f, p, c) ==
    [dirs  |-> f.dirs,
     files |-> [q \in DOMAIN f.files \cup {p} |-> IF q = p THEN c ELSE f.files[q]]]

\* os.rename(src, dst) of an existing file
Rename(f, src, dst) ==
    [dirs  |-> f.dirs,
     files |-> [q \in (DOMAIN f.files \ {src}) \cup {dst} |->
                   IF q = dst THEN f.files[src] ELSE f.files[q]]]

\* os.listdir(d): the names of the files and directories directly in d
ListDir(f, d) == {p[Len(d) + 1] : p \in {q \in DOMAIN f.files \cup f.dirs : Under(q, d)}}

\* the files os.walk(d) visits: every file under d, at any depth
Walk(f, d) == {p \in DOMAIN f.files : Under(p, d)}

\* tar_ref.extractall(path=d) / zip_ref.extractall(d): every member is
\* written under d, over a file of the same path if there is one
RECURSIVE ExtractAll(_, _, _)
ExtractAll(f, d, members) ==
    IF members = {} THEN f
    ELSE LET m == CHOOSE x \in members : TRUE
             target == Join(d, m)
             f1 == IF Len(target) > 1 THEN MakeDirs(f, Dirname(target)) ELSE f
         IN  ExtractAll(WriteFile(f1, target, PlainFile), d, members \ {m})

----------------------------------------------------------------------------
(* Error classifier: __handle_http_error                                   *)

Absent    == [type |-> "absent"]
IntVal(n) == [type |-> "int", n |-> n]
StrVal(x) == [type |-> "str", v |-> x]

\* Python truth value of a status: None, 0 and "" are false
Falsy(x) ==
    \/ x.type = "absent"
    \/ x.type = "int" /\ x.n = 0
    \/ x.type = "str" /\ x.v = ""

\* sub in str
Contains(sub, str) ==
    \E i \in 1..(Len(str) - Len(sub) + 1) : SubSeq(str, i, i + Len(sub) - 1) = sub

StatusChain == <<
    [code |-> "400", message |-> "Server unable to fulfill a bad request"],
    [code |-> "401", message |-> "Session expired/Unauthorized access"],
    [code |-> "404", message |-> "Address not found. If you are requesting a product, please check you are logged in"],
    [code |-> "405", message |-> "Method call is not allowed"],
    [code |-> "407", message |-> "Using a proxy with an authentication required"],
    [code |-> "413", message |-> "Request entity too large"],
    [code |-> "414", message |-> "Request URI too long"],
    [code |-> "501", message |-> "Method not implemented"],
    [code |-> "503", message |-> "Service is not available"],
    [code |-> "500", message |-> "Internal server error"] >>

\* the if/elif chain: the first code contained in the text decides
RECURSIVE FirstMatch(_, _, _)
FirstMatch(chain, text, default) ==
    IF chain = <<>> THEN default
    ELSE IF Contains(Head(chain).code, text) THEN Head(chain).message
    ELSE FirstMatch(Tail(chain), text, default)

\* an error is [code, status_code, text]: error.code, error.response.status_code
\* (each absent, an int or a str) and str(error).  The result is the message,
\* or the TypeError of `'400' in status_code` on a status that is an int.
HandleHttpError(error) ==
    LET s1 == IF error.status_code.type # "absent" THEN error.status_code ELSE error.code
        s2 == IF Falsy(s1) THEN StrVal(error.text) ELSE s1
    IN  IF s2.type = "int"
        THEN [raised |-> TRUE, exc |-> "TypeError", message |-> None]
        ELSE [raised |-> FALSE, exc |-> None,
              message |-> FirstMatch(StatusChain, s2.v, "Http error detected: " \o error.text)]

----------------------------------------------------------------------------
(* Retrieval pipeline                                                      *)

OSError           == "OSError"
FileNotFoundError == "FileNotFoundError"

RRun(f, t, errs, out) == [fs |-> f, trace |-> t, errors |-> errs, outcome |-> out]

\* the list of local paths a retrieval hands back
ReturnedFiles(paths) == [kind |-> "returned", value |-> "files", files |-> paths]

FsEv(c, p, ok) == [ep |-> "fs", call |-> c, ok |-> ok, path |-> p]

\* a load_data call on a sibling endpoint, with what the endpoint answered:
\* the payload it wrote to output_file, or the error it raised
TransferEv(e, params, p, transfer) ==
    [ep |-> e, call |-> "load_data", ok |-> transfer.kind = "ok", params |-> params,
     output_file |-> p, answer |-> transfer]

\* __set_dirs catching the OSError of os.makedirs without raising again
SetDirsSwallowingOSError(f, output_file, observation_id, now, mkdirOk) ==
    LET dir  == IF output_file = <<>> THEN <<"cwd", "temp_" \o now>> ELSE Dirname(output_file)
        full == IF output_file = <<>> THEN Join(dir, <<observation_id>>) ELSE output_file
    IN  IF dir = <<>>
        THEN [raised |-> FALSE, full |-> full, dir |-> dir, fs |-> f, trace |-> <<>>]
        ELSE [raised |-> FALSE, full |-> full, dir |-> dir,
              fs |-> IF mkdirOk THEN MakeDirs(f, dir) ELSE f,
              trace |-> <<FsEv("makedirs", dir, mkdirOk)>>]

\* __set_dirs naming the generated directory after the payload as well as
\* after the second
SetDirsPerPayload(f, output_file, observation_id, now, mkdirOk) ==
    LET dir  == IF output_file = <<>>
                THEN <<"cwd", "temp_" \o now \o "_" \o observation_id>>
                ELSE Dirname(output_file)
        full == IF output_file = <<>> THEN Join(dir, <<observation_id>>) ELSE output_file
    IN  IF dir = <<>>
        THEN [raised |-> FALSE, full |-> full, dir |-> dir, fs |-> f, trace |-> <<>>]
        ELSE [raised |-> ~mkdirOk, full |-> full, dir |-> dir,
              fs |-> IF mkdirOk THEN MakeDirs(f, dir) ELSE f,
              trace |-> <<FsEv("makedirs", dir, mkdirOk)>>]

\* EuclidClass.__set_dirs: the payload path and its directory, created when
\* it has a name
SetDirs(f, output_file, observation_id, now, mkdirOk) ==
    LET dir  == IF output_file = <<>> THEN <<"cwd", "temp_" \o now>> ELSE Dirname(output_file)
        full == IF output_file = <<>> THEN Join(dir, <<observation_id>>) ELSE output_file
    IN  IF dir = <<>>
        THEN [raised |-> FALSE, full |-> full, dir |-> dir, fs |-> f, trace |-> <<>>]
        ELSE [raised |-> ~mkdirOk, full |-> full, dir |-> dir,
              fs |-> IF mkdirOk THEN MakeDirs(f, dir) ELSE f,
              trace |-> <<FsEv("makedirs", dir, mkdirOk)>>]

\* __extract_file without its last branch: a plain file is not returned
\* at once but left to the directory count, like a gzip file
ExtractFileNoPlainReturn(f, full, dir, files) ==
    LET c == f.files[full]
    IN  IF c.kind \in {"tar", "zip"}
        THEN [fs |-> ExtractAll(f, dir, c.members), files |-> files,
              trace |-> <<FsEv("extractall", dir, TRUE)>>]
        ELSE [fs |-> f, files |-> files, trace |-> <<>>]

\* EuclidClass.__extract_file: archives are unpacked in place and add nothing
\* to `files`; a file that is no archive and not gzip is the one result
ExtractFile(f, full, dir, files) ==
    LET c == f.files[full]
    IN  IF c.kind \in {"tar", "zip"}
        THEN [fs |-> ExtractAll(f, dir, c.members), files |-> files,
              trace |-> <<FsEv("extractall", dir, TRUE)>>]
        ELSE IF c.kind # "gzip"
        THEN [fs |-> f, files |-> files \cup {full}, trace |-> <<>>]
        ELSE [fs |-> f, files |-> files, trace |-> <<>>]

\* EuclidClass.__check_file_number
CheckFileNumber(f, dir, name, full, files, t) ==
    IF dir = <<>>
    THEN RRun(f, Append(t, FsEv("listdir", dir, FALSE)), <<>>,
              Raised(FileNotFoundError, "listdir"))
    ELSE LET t1 == Append(t, FsEv("listdir", dir, TRUE))
         IN  IF Cardinality(ListDir(f, dir)) = 1
             THEN LET dst == Join(dir, <<name>>)
                  IN  IF ~Exists(f, full)
                      THEN RRun(f, Append(t1, FsEv("rename", full, FALSE)), <<>>,
                                Raised(FileNotFoundError, "rename"))
                      ELSE RRun(Rename(f, full, dst), Append(t1, FsEv("rename", full, TRUE)),
                                <<>>, ReturnedFiles(files \cup {dst}))
             ELSE RRun(f, Append(t1, FsEv("walk", dir, TRUE)), <<>>,
                       ReturnedFiles(files \cup {p \in Walk(f, dir) : Basename(p) # name}))

\* the tail shared by the four retrieval methods: __extract_file, the early
\* return when it produced a result, then __check_file_number
Normalize(f, full, dir, t) ==
    LET x == ExtractFile(f, full, dir, {})
    IN  IF x.files # {}
        THEN RRun(x.fs, t \o x.trace, <<>>, ReturnedFiles(x.files))
        ELSE CheckFileNumber(x.fs, dir, Basename(full), full, x.files, t \o x.trace)


----------------------------------------------------------------------------
(* Cutout retrieval: get_cutout                                            *)

\* angles are exact, in tenths of the unit they are given in; the common
\* unit for comparing them is the tenth of an arcsecond
Units == {"deg", "arcmin", "arcsec"}

Scale(u) == CASE u = "deg" -> 3600 [] u = "arcmin" -> 60 [] u = "arcsec" -> 1

\* Angle(q).to_value(u.deg), in tenths of an arcsecond
ToDegrees(q) == q.tenths * Scale(q.unit)

\* 0.5 degrees, in tenths of an arcsecond
HalfDegree == 18000

\* radius_deg > 0.5, accepting the boundary too (>= in place of >)
RadiusTooLargeInclusive(q) == ToDegrees(q) >= HalfDegree

\* radius_deg > 0.5
RadiusTooLarge(q) == ToDegrees(q) > HalfDegree

NoArg(ty) == [type |-> ty, tenths |-> 0, unit |-> "deg"]

\* EuclidClass.__get_quantity_input: a str is parsed into a Quantity, a
\* Quantity is taken as it is, anything else is refused
QuantityInput(value, name) ==
    IF value.type = "None"
    THEN [raised |-> TRUE, msg |-> "Missing required argument: '" \o name \o "'", q |-> value]
    ELSE IF value.type \notin {"str", "Quantity"}
    THEN [raised |-> TRUE, msg |-> name \o " must be either a string or astropy.coordinates",
          q |-> value]
    ELSE [raised |-> FALSE, msg |-> "",
          q |-> [type |-> "Quantity", tenths |-> value.tenths, unit |-> value.unit]]

\* EuclidClass.__get_coord_input
CoordInput(value, name) ==
    IF value.type \notin {"str", "SkyCoord"}
    THEN [raised |-> TRUE, msg |-> name \o " must be either a string or astropy.coordinates",
          c |-> value]
    ELSE [raised |-> FALSE, msg |-> "",
          c |-> [type |-> "SkyCoord", ra_hours |-> value.ra_hours, dec |-> value.dec]]

RFail(f, exc, msg) == RRun(f, <<>>, <<>>, Raised(exc, msg))

ErrCutout       == "Cannot retrieve the product for file_path, obsId and collection"
ErrFromServer   == "Error message from server: "
ErrCreateDir    == "Creation of the directory failed"

\* the try block around load_data in get_cutout and what follows it
CutoutTransfer(f, params, sd, transfer) ==
    LET t == Append(sd.trace, TransferEv("cutout", params, sd.full, transfer))
    IN  CASE transfer.kind = "ok" ->
                Normalize(WriteFile(f, sd.full, transfer.payload), sd.full, sd.dir, t)
          [] transfer.kind = "HTTPError" ->
                LET h == HandleHttpError(transfer.error)
                IN  IF h.raised
                    THEN RRun(f, t, <<>>, Raised(h.exc, "handle_http_error"))
                    ELSE RRun(f, t, <<ErrCutout, ErrFromServer \o h.message>>, Returned(None))
          [] OTHER ->
                RRun(f, t, <<ErrCutout>>, Returned(None))

\* EuclidClass.get_cutout
CutoutRun(f, a, env) ==
    IF \/ a.file_path = None \/ a.instrument = None \/ a.id = None
       \/ a.coordinate.type = "None" \/ a.radius.type = "None"
    THEN RFail(f, ValueError, ERROR_MSG_REQUESTED_GENERIC)
    ELSE LET qi == QuantityInput(a.radius, "radius")
         IN  IF qi.raised THEN RFail(f, ValueError, qi.msg)
             ELSE IF RadiusTooLarge(qi.q) THEN RFail(f, ValueError, ERROR_MSG_REQUESTED_RADIUS)
             ELSE LET ci == CoordInput(a.coordinate, "coordinate")
                  IN  IF ci.raised THEN RFail(f, ValueError, ci.msg)
                      ELSE LET pos == [shape |-> "CIRCLE", ra |-> ci.c.ra_hours * 15,
                                       dec |-> ci.c.dec, radius |-> ToDegrees(qi.q)]
                               params == [TAPCLIENT |-> "ASTROQUERY", FILEPATH |-> a.file_path,
                                          COLLECTION |-> a.instrument, OBSID |-> a.id,
                                          POS |-> pos]
                               sd == SetDirs(f, a.output_file, "temp", env.now, env.mkdirOk)
                           IN  IF sd.raised
                               THEN RRun(sd.fs, sd.trace, <<>>, Raised(OSError, ErrCreateDir))
                               ELSE CutoutTransfer(sd.fs, params, sd, env.transfer)

----------------------------------------------------------------------------
(* Product and spectrum retrieval: get_observation_products, get_product,  *)
(* get_spectrum                                                            *)

\* conf.PRODUCT_TYPES, the values get_observation_products documents
PRODUCT_TYPES == {"observation", "mosaic"}

ERROR_MSG_NO_FILE_NO_PRODUCT == "'file_name' and 'product_id' are both None"

ErrObservation == "Cannot retrieve products for observation"
ErrProduct     == "Cannot retrieve products for file_name or product_id"
ErrSpectrum    == "Cannot retrieve spectrum for source_id, schema"

\* the try block around load_data in get_observation_products and in
\* get_product, and what follows it: one log line, with the message of the
\* classifier
ProductTransfer(f, params, sd, transfer, context) ==
    LET t == Append(sd.trace, TransferEv("data", params, sd.full, transfer))
    IN  CASE transfer.kind = "ok" ->
                Normalize(WriteFile(f, sd.full, transfer.payload), sd.full, sd.dir, t)
          [] transfer.kind = "HTTPError" ->
                LET h == HandleHttpError(transfer.error)
                IN  IF h.raised
                    THEN RRun(f, t, <<>>, Raised(h.exc, "handle_http_error"))
                    ELSE RRun(f, t, <<context \o ": " \o h.message>>, Returned(None))
          [] OTHER ->
                RRun(f, t, <<context>>, Returned(None))

\* the try block around load_data in get_spectrum and what follows it
SpectrumTransfer(f, params, sd, transfer) ==
    LET t == Append(sd.trace, TransferEv("data", params, sd.full, transfer))
    IN  CASE transfer.kind = "ok" ->
                Normalize(WriteFile(f, sd.full, transfer.payload), sd.full, sd.dir, t)
          [] transfer.kind = "HTTPError" ->
                LET h == HandleHttpError(transfer.error)
                IN  IF h.raised
                    THEN RRun(f, t, <<>>, Raised(h.exc, "handle_http_error"))
                    ELSE RRun(f, t, <<ErrSpectrum, ErrFromServer \o h.message>>, Returned(None))
          [] OTHER ->
                RRun(f, t, <<ErrSpectrum>>, Returned(None))

ObservationParams(a) ==
    IF a.product_type = "observation"
    THEN [TYPE |-> a.product_subtype, RETRIEVAL_ACCESS |-> "DIRECT", TAPCLIENT |-> "ASTROQUERY",
          RELEASE |-> a.schema, FILTER |-> a.filter, RETRIEVAL_TYPE |-> "OBSERVATION",
          OBS_ID |-> a.id]
    ELSE IF a.product_type = "mosaic"
    THEN [TYPE |-> a.product_subtype, RETRIEVAL_ACCESS |-> "DIRECT", TAPCLIENT |-> "ASTROQUERY",
          RELEASE |-> a.schema, MSC_ID |-> a.id, RETRIEVAL_TYPE |-> "MOSAIC"]
    ELSE [TYPE |-> a.product_subtype, RETRIEVAL_ACCESS |-> "DIRECT", TAPCLIENT |-> "ASTROQUERY",
          RELEASE |-> a.schema]

\* get_observation_products with the product type looked up in
\* conf.PRODUCT_TYPES only after the output directory has been resolved
ObservationProductsRunLateTypeTest(f, a, env) ==
    IF a.id = None THEN RFail(f, ValueError, ERROR_MSG_REQUESTED_OBSERVATION_ID)
    ELSE IF a.product_type = None THEN RFail(f, ValueError, ERROR_MSG_REQUESTED_PRODUCT_TYPE)
    ELSE LET sd == SetDirs(f, a.output_file, a.id, env.now, env.mkdirOk)
         IN  IF sd.raised
             THEN RRun(sd.fs, sd.trace, <<>>, Raised(OSError, ErrCreateDir))
             ELSE IF a.product_type \notin PRODUCT_TYPES
             THEN RRun(sd.fs, sd.trace, <<>>, Raised(ValueError, ERROR_MSG_INVALID_PRODUCT_TYPE))
             ELSE ProductTransfer(sd.fs, ObservationParams(a), sd, env.transfer, ErrObservation)

\* EuclidClass.get_observation_products
ObservationProductsRun(f, a, env) ==
    IF a.id = None THEN RFail(f, ValueError, ERROR_MSG_REQUESTED_OBSERVATION_ID)
    ELSE IF a.product_type = None THEN RFail(f, ValueError, ERROR_MSG_REQUESTED_PRODUCT_TYPE)
    ELSE IF a.product_type \notin PRODUCT_TYPES
    THEN RFail(f, ValueError, ERROR_MSG_INVALID_PRODUCT_TYPE)
    ELSE LET sd == SetDirs(f, a.output_file, a.id, env.now, env.mkdirOk)
         IN  IF sd.raised
             THEN RRun(sd.fs, sd.trace, <<>>, Raised(OSError, ErrCreateDir))
             ELSE ProductTransfer(sd.fs, ObservationParams(a), sd, env.transfer, ErrObservation)

ProductParams(a) ==
    IF a.product_id # None
    THEN IF a.file_name # None
         THEN [TAPCLIENT |-> "ASTROQUERY", RELEASE |-> a.schema, FILE_NAME |-> a.file_name,
               PRODUCT_ID |-> a.product_id, RETRIEVAL_TYPE |-> "PRODUCT_ID"]
         ELSE [TAPCLIENT |-> "ASTROQUERY", RELEASE |-> a.schema,
               PRODUCT_ID |-> a.product_id, RETRIEVAL_TYPE |-> "PRODUCT_ID"]
    ELSE [TAPCLIENT |-> "ASTROQUERY", RELEASE |-> a.schema, FILE_NAME |-> a.file_name,
          RETRIEVAL_TYPE |-> "FILE"]

\* EuclidClass.get_product
ProductRun(f, a, env) ==
    IF a.file_name = None /\ a.product_id = None
    THEN RFail(f, ValueError, ERROR_MSG_NO_FILE_NO_PRODUCT)
    ELSE LET sd == SetDirs(f, a.output_file, "temp", env.now, env.mkdirOk)
         IN  IF sd.raised
             THEN RRun(sd.fs, sd.trace, <<>>, Raised(OSError, ErrCreateDir))
             ELSE ProductTransfer(sd.fs, ProductParams(a), sd, env.transfer, ErrProduct)

\* EuclidClass.get_spectrum
SpectrumRun(f, a, env) ==
    IF a.source_id = None \/ a.schema = None
    THEN RFail(f, ValueError, ERROR_MSG_REQUESTED_GENERIC)
    ELSE LET params == [TAPCLIENT |-> "ASTROQUERY", RETRIEVAL_TYPE |-> "SPECTRA",
                        ID |-> a.schema \o " " \o a.source_id]
             sd == SetDirs(f, a.output_file, "temp", env.now, env.mkdirOk)
         IN  IF sd.raised
             THEN RRun(sd.fs, sd.trace, <<>>, Raised(OSError, ErrCreateDir))
             ELSE SpectrumTransfer(sd.fs, params, sd, env.transfer)

----------------------------------------------------------------------------
(* Inputs of the retrieval calls                                           *)

\* how far around the 0.5 degree limit the radii of the requests go, in
\* tenths of the unit of the radius
RadiusSlack == 1

RadiusQuantities ==
    UNION { {[tenths |-> t, unit |-> u] :
                t \in ((HalfDegree \div Scale(u)) - RadiusSlack)..((HalfDegree \div Scale(u)) + RadiusSlack)}
            : u \in Units }

Radii ==
    {NoArg("None"), NoArg("float")} \cup
    {[type |-> ty, tenths |-> q.tenths, unit |-> q.unit] :
        ty \in {"Quantity", "str"}, q \in RadiusQuantities}

\* a coordinate as the coordinate parser hands it back: right ascension in
\* fifteenths of an hour, declination in degrees; ra_hours * 15 is then the
\* right ascension in fifteenths of a degree
Coordinates ==
    {[type |-> ty, ra_hours |-> 1, dec |-> 20] : ty \in {"None", "SkyCoord", "str", "float"}}

\* output_file=None
NoOutputFile == <<>>

OutputFiles == {NoOutputFile, <<"out", "cutout.fits">>, <<"cutout.fits">>}

Timestamps == {"20240101_120000"}

Members == {<<"a.fits">>, <<"sub", "b.fits">>, <<"temp">>}

Payloads ==
    {PlainFile, [kind |-> "gzip", members |-> {}]} \cup
    {[kind |-> k, members |-> m] : k \in {"tar", "zip"}, m \in SUBSET Members}

NoError == [code |-> Absent, status_code |-> Absent, text |-> ""]

HttpErrors == {
    [code |-> Absent, status_code |-> IntVal(404), text |-> "404 Client Error"],
    [code |-> Absent, status_code |-> Absent, text |-> "timeout"],
    [code |-> Absent, status_code |-> Absent, text |-> "Error 500"],
    [code |-> StrVal("503"), status_code |-> Absent, text |-> "Service Unavailable"],
    [code |-> IntVal(500), status_code |-> Absent, text |-> "Internal Server Error"] }

Transfers ==
    {[kind |-> "ok", payload |-> p, error |-> NoError] : p \in Payloads} \cup
    {[kind |-> "HTTPError", payload |-> PlainFile, error |-> e] : e \in HttpErrors} \cup
    {[kind |-> "Exception", payload |-> PlainFile, error |-> NoError]}

Envs == [now : Timestamps, mkdirOk : BOOLEAN, transfer : Transfers]

QuietEnv == [now |-> CHOOSE n \in Timestamps : TRUE, mkdirOk |-> TRUE,
             transfer |-> [kind |-> "Exception", payload |-> PlainFile, error |-> NoError]]

\* the filesystems a retrieval call can find: files left in the output
\* directories by the caller or by another retrieval call
StrayFiles ==
    UNION {{<<"cwd", "temp_" \o n, "other.fits">>} : n \in Timestamps} \cup
    {<<"out", "other.fits">>}

RECURSIVE WithFiles(_, _)
WithFiles(f, paths) ==
    IF paths = {} THEN f
    ELSE LET p == CHOOSE x \in paths : TRUE
         IN  WithFiles(WriteFile(MakeDirs(f, Dirname(p)), p, PlainFile), paths \ {p})

InitialFilesystems == {WithFiles(EmptyFs, paths) : paths \in SUBSET StrayFiles}

FinishRetrieval(rq, r) ==
    /\ pre' = auth
    /\ auth' = auth
    /\ req' = rq
    /\ outcome' = r.outcome
    /\ trace' = r.trace
    /\ errors' = r.errors
    /\ fs' = r.fs
    /\ prefs' = fs

\* the environment of a call matters only once the call reaches a
\* collaborator: a call that makes no collaborator call is taken once
EnvsFor(quiet) == IF quiet.trace = <<>> THEN {QuietEnv} ELSE Envs

\* a behaviour of the retrieval specification is one retrieval call, made on
\* any of the filesystems earlier activity can have left behind
GetCutout ==
    /\ req.op = "none"
    /\ \E file_path \in {None, "EUC_MER.fits"}, instrument \in {None, "VIS"},
          id \in {None, "102018211"}, coordinate \in Coordinates, radius \in Radii,
          output_file \in OutputFiles :
          LET a == [file_path |-> file_path, instrument |-> instrument, id |-> id,
                    coordinate |-> coordinate, radius |-> radius, output_file |-> output_file]
          IN  \E env \in EnvsFor(CutoutRun(fs, a, QuietEnv)) :
                 FinishRetrieval([op |-> "get_cutout", args |-> a], CutoutRun(fs, a, env))

GetObservationProducts ==
    /\ req.op = "none"
    /\ \E id \in {None} \cup ObservationIds,
          product_type \in {None, "NoSuchProduct"} \cup PRODUCT_TYPES,
          output_file \in OutputFiles :
          LET a == [id |-> id, schema |-> "sedm", product_type |-> product_type,
                    product_subtype |-> "STK", filter |-> "VIS", output_file |-> output_file]
          IN  \E env \in EnvsFor(ObservationProductsRun(fs, a, QuietEnv)) :
                 FinishRetrieval([op |-> "get_observation_products", args |-> a],
                                 ObservationProductsRun(fs, a, env))

GetProduct ==
    /\ req.op = "none"
    /\ \E file_name \in {None, "EUC_MER.fits"}, product_id \in {None, "123"},
          output_file \in OutputFiles :
          LET a == [file_name |-> file_name, product_id |-> product_id, schema |-> "sedm",
                    output_file |-> output_file]
          IN  \E env \in EnvsFor(ProductRun(fs, a, QuietEnv)) :
                 FinishRetrieval([op |-> "get_product", args |-> a], ProductRun(fs, a, env))

GetSpectrum ==
    /\ req.op = "none"
    /\ \E source_id \in {None, "2417660845403252054"}, schema \in {None, "sedm"},
          output_file \in OutputFiles :
          LET a == [source_id |-> source_id, schema |-> schema, output_file |-> output_file]
          IN  \E env \in EnvsFor(SpectrumRun(fs, a, QuietEnv)) :
                 FinishRetrieval([op |-> "get_spectrum", args |-> a], SpectrumRun(fs, a, env))

InitRetrieval ==
    /\ auth = [e \in Endpoints |-> Anon]
    /\ pre = [e \in Endpoints |-> Anon]
    /\ req = [op |-> "none"]
    /\ outcome = NoOutcome
    /\ trace = <<>>
    /\ errors = <<>>
    /\ fs \in InitialFilesystems
    /\ prefs = fs

NextRetrieval == GetObservationProducts \/ GetProduct \/ GetCutout \/ GetSpectrum

SpecRetrieval == InitRetrieval /\ [][NextRetrieval]_vars

----------------------------------------------------------------------------
(* Query operations: launch_job, launch_job_async, load_async_job,         *)
(* search_async_jobs, query_object, query_object_async, cone_search        *)

\* what the job executor (TapPlus) answers to a call: a job, or an error
JobAnswers ==
    {[kind |-> "ok", error |-> NoError]} \cup
    {[kind |-> "HTTPError", error |-> e] : e \in HttpErrors} \cup
    {[kind |-> "Exception", error |-> NoError]}

\* a launch on the job executor: super().launch_job(query, output_format=...,
\* format_with_results_compressed=...) or super().launch_job_async(...)
LaunchEv(call, q, fmt, compressed, answer) ==
    [ep |-> "catalog", call |-> call, ok |-> answer.kind = "ok", query |-> q,
     output_format |-> fmt, compressed |-> compressed, answer |-> answer]

\* a call on the job executor that looks jobs up
JobsEv(call, arg, answer) ==
    [ep |-> "catalog", call |-> call, ok |-> answer.kind = "ok", arg |-> arg,
     answer |-> answer]

ErrQueryFailed == "Query failed"
ErrLoadingJob  == "Loading async job failed"
ErrLoadingJobs == "Loading jobs with filter failed"

\* try: return super().call(...) / except HTTPError / except Exception, the
\* body of launch_job, launch_job_async, load_async_job and search_async_jobs
Guarded(ev, answer, context, result) ==
    CASE answer.kind = "ok" -> Run(auth, <<ev>>, <<>>, Returned(result))
      [] answer.kind = "HTTPError" ->
            LET h == HandleHttpError(answer.error)
            IN  IF h.raised
                THEN Run(auth, <<ev>>, <<>>, Raised(h.exc, "handle_http_error"))
                ELSE Run(auth, <<ev>>, <<context \o ": " \o h.message>>, Returned(None))
      [] OTHER -> Run(auth, <<ev>>, <<context>>, Returned(None))

\* job = super().launch_job(...) / super().launch_job_async(...) with no try
\* block around it: what the job executor raises reaches the caller
Unguarded(ev, answer, result) ==
    CASE answer.kind = "ok" -> Run(auth, <<ev>>, <<>>, Returned(result))
      [] answer.kind = "HTTPError" -> Run(auth, <<ev>>, <<>>, Raised(HTTPError, ev.call))
      [] OTHER -> Run(auth, <<ev>>, <<>>, Raised("Exception", ev.call))

\* EuclidClass.launch_job
LaunchJobRun(query, output_format, answer) ==
    Guarded(LaunchEv("launch_job", query, output_format, "votable_gzip", answer), answer,
            ErrQueryFailed, "job")

\* EuclidClass.launch_job_async
LaunchJobAsyncRun(query, output_format, answer) ==
    Guarded(LaunchEv("launch_job_async", query, output_format, "votable_gzip", answer), answer,
            ErrQueryFailed, "job")

\* EuclidClass.load_async_job
LoadAsyncJobRun(jobid, answer) ==
    Guarded(JobsEv("load_async_job", jobid, answer), answer, ErrLoadingJob, "job")

\* EuclidClass.search_async_jobs
SearchAsyncJobsRun(jobfilter, answer) ==
    Guarded(JobsEv("search_async_jobs", jobfilter, answer), answer, ErrLoadingJobs, "jobs")

\* self.main_table, self.main_table_ra, self.main_table_dec of the
\* environment the client was built for
MainTable    == "main_table"
MainTableRa  == "main_table_ra_column"
MainTableDec == "main_table_dec_column"

\* "TOP {0}".format(self.ROW_LIMIT) if self.ROW_LIMIT > 0 else ""
RowLimitText(row_limit) == IF row_limit > 0 THEN "TOP " \o ToString(row_limit) ELSE ""

\* ','.join(map(str, columns))
RECURSIVE JoinColumns(_)
JoinColumns(columns) ==
    IF Len(columns) = 1 THEN columns[1]
    ELSE columns[1] \o "," \o JoinColumns(Tail(columns))

\* the items of str(columns) for a tuple of column names
RECURSIVE ReprItems(_)
ReprItems(columns) ==
    IF Len(columns) = 1 THEN "'" \o columns[1] \o "'"
    ELSE "'" \o columns[1] \o "', " \o ReprItems(Tail(columns))

\* str(columns) for a tuple: "()", "('a',)", "('a', 'b')"
TupleRepr(columns) ==
    IF columns = <<>> THEN "()"
    ELSE IF Len(columns) = 1 THEN "(" \o ReprItems(columns) \o ",)"
    ELSE "(" \o ReprItems(columns) \o ")"

\* the radius put into the query text: a number of degrees (here in tenths
\* of an arcsecond), or the text None when cone_search is given no radius
NoRadius == [given |-> FALSE, deg |-> 0]
RadiusDeg(q) == [given |-> TRUE, deg |-> ToDegrees(q)]

\* the SELECT of __cone_search and of cone_search
ConeQuery(row_limit, columns, table_name, ra_column, dec_column, ra, dec, radius) ==
    [row_limit |-> RowLimitText(row_limit), columns |-> columns, shape |-> "CIRCLE",
     table_name |-> table_name, ra_column |-> ra_column, dec_column |-> dec_column,
     ra |-> ra, dec |-> dec, radius |-> radius, order_by |-> "dist ASC"]

\* the SELECT of __query_object when no radius is given
BoxQuery(ra, dec, width, height) ==
    [row_limit |-> "", columns |-> "*", shape |-> "BOX",
     table_name |-> MainTable, ra_column |-> MainTableRa, dec_column |-> MainTableDec,
     ra |-> ra, dec |-> dec, width |-> width, height |-> height, order_by |-> "dist ASC"]

LaunchCall(async_job) == IF async_job THEN "launch_job_async" ELSE "launch_job"

\* EuclidClass.__cone_search on the main table
ConeSearchInner(coord, radius, async_job, columns, row_limit, answer) ==
    LET ci == CoordInput(coord, "coordinate")
    IN  IF ci.raised THEN Fail(ValueError, ci.msg)
        ELSE LET qi == QuantityInput(radius, "radius")
             IN  IF radius.type # "None" /\ qi.raised THEN Fail(ValueError, qi.msg)
                 ELSE LET q == ConeQuery(row_limit,
                                         IF columns # <<>> THEN JoinColumns(columns) ELSE "*",
                                         MainTable, MainTableRa, MainTableDec,
                                         ci.c.ra_hours * 15, ci.c.dec,
                                         IF radius.type # "None" THEN RadiusDeg(qi.q)
                                         ELSE NoRadius)
                      IN  Unguarded(LaunchEv(LaunchCall(async_job), q, None,
                                             "votable_gzip", answer),
                                    answer, "job")

\* return job.get_results()
GetResults(r) == IF r.outcome = Returned("job") THEN [r EXCEPT !.outcome = Returned("table")] ELSE r

\* __query_object reading width and height before it looks at radius
QueryObjectRunBoxFirst(a, async_job, row_limit, answer) ==
    LET ci == CoordInput(a.coordinate, "coordinate")
        qw == QuantityInput(a.width, "width")
        qh == QuantityInput(a.height, "height")
    IN  IF ci.raised THEN Fail(ValueError, ci.msg)
        ELSE IF qw.raised THEN Fail(ValueError, qw.msg)
        ELSE IF qh.raised THEN Fail(ValueError, qh.msg)
        ELSE IF a.radius.type # "None"
        THEN GetResults(ConeSearchInner(ci.c, a.radius, async_job, a.columns, row_limit, answer))
        ELSE LET q == BoxQuery(ci.c.ra_hours * 15, ci.c.dec,
                               ToDegrees(qw.q), ToDegrees(qh.q))
             IN  GetResults(Unguarded(LaunchEv(LaunchCall(async_job), q, None,
                                               "votable_gzip", answer),
                                      answer, "job"))

\* __query_object launching the box query with the executor's default for
\* the compressed formats
QueryObjectRunPlainBox(a, async_job, row_limit, answer) ==
    LET ci == CoordInput(a.coordinate, "coordinate")
    IN  IF ci.raised THEN Fail(ValueError, ci.msg)
        ELSE IF a.radius.type # "None"
        THEN GetResults(ConeSearchInner(ci.c, a.radius, async_job, a.columns, row_limit, answer))
        ELSE LET qw == QuantityInput(a.width, "width")
                 qh == QuantityInput(a.height, "height")
             IN  IF qw.raised THEN Fail(ValueError, qw.msg)
                 ELSE IF qh.raised THEN Fail(ValueError, qh.msg)
                 ELSE LET q == BoxQuery(ci.c.ra_hours * 15, ci.c.dec,
                                        ToDegrees(qw.q), ToDegrees(qh.q))
                      IN  GetResults(Unguarded(LaunchEv(LaunchCall(async_job), q, None,
                                                        None, answer),
                                               answer, "job"))

\* EuclidClass.__query_object, which query_object and query_object_async call
QueryObjectRun(a, async_job, row_limit, answer) ==
    LET ci == CoordInput(a.coordinate, "coordinate")
    IN  IF ci.raised THEN Fail(ValueError, ci.msg)
        ELSE IF a.radius.type # "None"
        THEN GetResults(ConeSearchInner(ci.c, a.radius, async_job, a.columns, row_limit, answer))
        ELSE LET qw == QuantityInput(a.width, "width")
                 qh == QuantityInput(a.height, "height")
             IN  IF qw.raised THEN Fail(ValueError, qw.msg)
                 ELSE IF qh.raised THEN Fail(ValueError, qh.msg)
                 ELSE LET q == BoxQuery(ci.c.ra_hours * 15, ci.c.dec,
                                        ToDegrees(qw.q), ToDegrees(qh.q))
                      IN  GetResults(Unguarded(LaunchEv(LaunchCall(async_job), q, None,
                                                        "votable_gzip", answer),
                                               answer, "job"))

\* cone_search putting the hour angle into the query as it came
ConeSearchRunHourAngle(a, row_limit, answer) ==
    LET ci == CoordInput(a.coordinate, "coordinate")
    IN  IF ci.raised THEN Fail(ValueError, ci.msg)
        ELSE LET qi == QuantityInput(a.radius, "radius")
             IN  IF a.radius.type # "None" /\ qi.raised THEN Fail(ValueError, qi.msg)
                 ELSE LET q == ConeQuery(row_limit, TupleRepr(a.columns),
                                         MainTable, MainTableRa, MainTableDec,
                                         ci.c.ra_hours, ci.c.dec,
                                         IF a.radius.type # "None" THEN RadiusDeg(qi.q)
                                         ELSE NoRadius)
                      IN  Unguarded(LaunchEv(LaunchCall(a.async_job), q, a.output_format,
                                             "votable_gzip", answer),
                                    answer, "job")

\* EuclidClass.cone_search on the main table
ConeSearchRun(a, row_limit, answer) ==
    LET ci == CoordInput(a.coordinate, "coordinate")
    IN  IF ci.raised THEN Fail(ValueError, ci.msg)
        ELSE LET qi == QuantityInput(a.radius, "radius")
             IN  IF a.radius.type # "None" /\ qi.raised THEN Fail(ValueError, qi.msg)
                 ELSE LET q == ConeQuery(row_limit, TupleRepr(a.columns),
                                         MainTable, MainTableRa, MainTableDec,
                                         ci.c.ra_hours * 15, ci.c.dec,
                                         IF a.radius.type # "None" THEN RadiusDeg(qi.q)
                                         ELSE NoRadius)
                      IN  Unguarded(LaunchEv(LaunchCall(a.async_job), q, a.output_format,
                                             "votable_gzip", answer),
                                    answer, "job")

----------------------------------------------------------------------------
(* Inputs of the query calls                                               *)

Queries == {"SELECT TOP 10 * FROM main_table"}

OutputFormats == {"csv", "votable"}

QueryRadii ==
    {NoArg("None"), NoArg("float"), [type |-> "Quantity", tenths |-> 30, unit |-> "arcmin"]}

BoxSides == {NoArg("None"), [type |-> "Quantity", tenths |-> 10, unit |-> "deg"]}

ColumnLists == {<<>>, <<"right_ascension", "declination">>}

\* values of the class attribute ROW_LIMIT
RowLimits == {-1, 0, 5}

\* the coordinates of the retrieval calls, and the position ra = 10 deg
\* (10 hours / 15), dec = 20 deg
QueryCoordinates ==
    Coordinates \cup {[type |-> "SkyCoord", ra_hours |-> 10, dec |-> 20]}

QuietAnswer == [kind |-> "ok", error |-> NoError]

\* the answer of the job executor matters only to a call that reaches it
AnswersFor(quiet) == IF quiet.trace = <<>> THEN {QuietAnswer} ELSE JobAnswers

\* a behaviour of the query specification starts with one of the query
\* calls below; none of them changes what a later call finds
LaunchJob ==
    /\ req.op = "none"
    /\ \E query \in Queries, output_format \in OutputFormats, answer \in JobAnswers :
          Finish([op |-> "launch_job", query |-> query, output_format |-> output_format],
                 LaunchJobRun(query, output_format, answer))

LaunchJobAsync ==
    /\ req.op = "none"
    /\ \E query \in Queries, output_format \in OutputFormats, answer \in JobAnswers :
          Finish([op |-> "launch_job_async", query |-> query, output_format |-> output_format],
                 LaunchJobAsyncRun(query, output_format, answer))

LoadAsyncJob ==
    /\ req.op = "none"
    /\ \E jobid \in {None, "1479386030738O"}, answer \in JobAnswers :
          Finish([op |-> "load_async_job", jobid |-> jobid], LoadAsyncJobRun(jobid, answer))

SearchAsyncJobs ==
    /\ req.op = "none"
    /\ \E answer \in JobAnswers :
          Finish([op |-> "search_async_jobs", jobfilter |-> None],
                 SearchAsyncJobsRun(None, answer))

QueryObject ==
    /\ req.op = "none"
    /\ \E coordinate \in QueryCoordinates, radius \in QueryRadii, width \in BoxSides,
          height \in BoxSides, columns \in ColumnLists, row_limit \in RowLimits :
          LET a == [coordinate |-> coordinate, radius |-> radius, width |-> width,
                    height |-> height, columns |-> columns]
          IN  \E answer \in AnswersFor(QueryObjectRun(a, FALSE, row_limit, QuietAnswer)) :
                 Finish([op |-> "query_object", args |-> a, ROW_LIMIT |-> row_limit],
                        QueryObjectRun(a, FALSE, row_limit, answer))

QueryObjectAsync ==
    /\ req.op = "none"
    /\ \E coordinate \in QueryCoordinates, radius \in QueryRadii, width \in BoxSides,
          height \in BoxSides, columns \in ColumnLists, row_limit \in RowLimits :
          LET a == [coordinate |-> coordinate, radius |-> radius, width |-> width,
                    height |-> height, columns |-> columns]
          IN  \E answer \in AnswersFor(QueryObjectRun(a, TRUE, row_limit, QuietAnswer)) :
                 Finish([op |-> "query_object_async", args |-> a, ROW_LIMIT |-> row_limit],
                        QueryObjectRun(a, TRUE, row_limit, answer))

ConeSearch ==
    /\ req.op = "none"
    /\ \E coordinate \in QueryCoordinates, radius \in QueryRadii, async_job \in BOOLEAN,
          columns \in ColumnLists, row_limit \in RowLimits :
          LET a == [coordinate |-> coordinate, radius |-> radius, async_job |-> async_job,
                    output_format |-> "csv", columns |-> columns]
          IN  \E answer \in AnswersFor(ConeSearchRun(a, row_limit, QuietAnswer)) :
                 Finish([op |-> "cone_search", args |-> a, ROW_LIMIT |-> row_limit],
                        ConeSearchRun(a, row_limit, answer))

Init ==
    /\ auth = [e \in Endpoints |-> Anon]
    /\ pre = [e \in Endpoints |-> Anon]
    /\ req = [op |-> "none"]
    /\ outcome = NoOutcome
    /\ trace = <<>>
    /\ errors = <<>>
    /\ fs = EmptyFs
    /\ prefs = EmptyFs

Next == Login \/ LoginGui \/ Logout \/ GetProductList

Spec == Init /\ [][Next]_vars

NextQuery ==
    \/ LaunchJob \/ LaunchJobAsync \/ LoadAsyncJob \/ SearchAsyncJobs
    \/ QueryObject \/ QueryObjectAsync \/ ConeSearch \/ GetProductList

SpecQuery == Init /\ [][NextQuery]_vars

----------------------------------------------------------------------------
(* The error classifier on its own                                         *)

\* statuses an error can carry, as error.code or error.response.status_code
Statuses == {
    IntVal(0), IntVal(500), IntVal(501), IntVal(404),
    StrVal(""), StrVal("500"), StrVal("501"), StrVal("404"), StrVal("5001"), StrVal("4000") }

\* str(error)
ErrorTexts == {
    "timeout", "Error 500", "Error 501: not implemented", "Error 5001",
    "Error 503 (request 14041)", "Connection reset" }

ClassifierInputs ==
    [code : Statuses \cup {Absent}, status_code : Statuses \cup {Absent}, text : ErrorTexts]

HandleHttpErrorRun(error) ==
    LET h == HandleHttpError(error)
    IN  Run(auth, <<>>, <<>>,
            IF h.raised THEN Raised(h.exc, "handle_http_error") ELSE Returned(h.message))

\* a behaviour of the classifier specification is one classification
Classify ==
    /\ req.op = "none"
    /\ \E error \in ClassifierInputs :
        Finish([op |-> "handle_http_error", error |-> error], HandleHttpErrorRun(error))

SpecClassifier == Init /\ [][Classify]_vars

----------------------------------------------------------------------------
(* Session coordinator: properties                                         *)

CatalogLoginOk     == Has(trace, Ev("catalog", "login", TRUE))
CatalogLoginFailed == Has(trace, Ev("catalog", "login", FALSE))
DataLoginFailed    == Has(trace, Ev("data", "login", FALSE))
CutoutLoginFailed  == Has(trace, Ev("cutout", "login", FALSE))
SiblingLoginFailed == DataLoginFailed \/ CutoutLoginFailed
AllAnonymous       == \A e \in Endpoints : auth[e] = Anon

\* C1: in login, when the catalog login succeeds and the data login then
\* fails, a catalog logout is issued and, when login returns, the catalog,
\* data and cutout sessions are all unauthenticated.
C1_DataFailureLeavesAllAnonymous ==
    (req.op = "login" /\ CatalogLoginOk /\ DataLoginFailed /\ outcome.kind = "returned")
        => (Attempted(trace, "catalog", "logout") /\ AllAnonymous)

\* C2: login is all-or-nothing: when any sibling login (data or cutout)
\* fails after the catalog login succeeded, the catalog session is logged
\* out and no session, the data session after a cutout failure included, is
\* authenticated when login returns.
C2_LoginAllOrNothing ==
    (req.op = "login" /\ CatalogLoginOk /\ SiblingLoginFailed /\ outcome.kind = "returned")
        => /\ Has(trace, Ev("catalog", "logout", TRUE))
           /\ auth["catalog"] = Anon
           /\ auth["data"] = Anon
           /\ auth["cutout"] = Anon

\* C3: in login and login_gui every login call on the data or cutout
\* session comes after a successful catalog login of the same call, and when
\* the catalog login fails the call touches only the catalog session and
\* leaves both sibling sessions as they were.
C3_SiblingLoginOnlyAfterCatalog ==
    req.op \in {"login", "login_gui"} =>
        /\ \A i \in 1..Len(trace) :
              (trace[i].ep \in Siblings /\ trace[i].call = "login")
                  => \E j \in 1..(i - 1) : trace[j] = Ev("catalog", "login", TRUE)
        /\ CatalogLoginFailed =>
              /\ trace = <<Ev("catalog", "login", FALSE)>>
              /\ \A e \in Siblings : auth[e] = pre[e]

C3_Witness ==
    /\ req.op \in {"login", "login_gui"}
    /\ CatalogLoginFailed
    /\ pre["data"] # Anon
    /\ pre["cutout"] # Anon

\* C4 as stated: login ends with an AuthError for the caller whenever the
\* catalog login fails or a sibling login fails after the catalog login
\* succeeded, never with a normal return.
C4_FailedLoginRaisesAuthError ==
    (req.op = "login" /\ (CatalogLoginFailed \/ SiblingLoginFailed))
        => (outcome.kind = "raised" /\ outcome.exc = "AuthError")

\* C4 amended: a failed login is logged, not raised: when the catalog login
\* fails, or a sibling login fails and the rollback logout of the catalog
\* session succeeds, login writes the error to the log and returns normally;
\* the only error that reaches the caller is the HTTPError of a rollback
\* logout that itself fails.
C4_FailedLoginLoggedAndReturned ==
    req.op = "login" =>
        /\ CatalogLoginFailed =>
              (outcome = Returned(None) /\ errors = <<ErrTapLogin>>)
        /\ (SiblingLoginFailed /\ Has(trace, Ev("catalog", "logout", TRUE))) =>
              (outcome = Returned(None) /\ errors = <<ErrSiblingsLogin, ErrRollback>>)
        /\ outcome.kind = "raised" =>
              (outcome.exc = HTTPError /\ Has(trace, Ev("catalog", "logout", FALSE)))

C4_Witness ==
    /\ req.op = "login"
    /\ CutoutLoginFailed
    /\ outcome = Returned(None)

Rank(e) == CASE e = "catalog" -> 1 [] e = "data" -> 2 [] e = "cutout" -> 3

\* C6: logout makes its logout calls in the order catalog, data, cutout,
\* starting with the catalog session; a failed data logout is logged and the
\* cutout logout is still attempted after it.
C6_LogoutOrder ==
    req.op = "logout" =>
        /\ Len(trace) >= 1
        /\ trace[1].ep = "catalog"
        /\ \A i \in 1..Len(trace) : trace[i].call = "logout" /\ Rank(trace[i].ep) = i
        /\ Has(trace, Ev("catalog", "logout", TRUE)) => Attempted(trace, "data", "logout")
        /\ Attempted(trace, "data", "logout") => Attempted(trace, "cutout", "logout")
        /\ Has(trace, Ev("data", "logout", FALSE)) => Has(errors, ErrDataLogout)

C6_Witness ==
    /\ req.op = "logout"
    /\ Has(trace, Ev("data", "logout", FALSE))
    /\ Attempted(trace, "cutout", "logout")
    /\ pre["data"] # Anon

\* C7 as stated: for every combination of endpoint logout failures, a
\* catalog failure included, logout returns normally and has attempted the
\* logout of each of the three endpoints.
C7_LogoutAttemptsEveryEndpoint ==
    req.op = "logout" =>
        /\ outcome.kind = "returned"
        /\ \A e \in Endpoints : Attempted(trace, e, "logout")

\* C7 amended: logout returns normally for every combination of endpoint
\* logout failures; it attempts all three logouts whenever the catalog
\* logout succeeds, and when the catalog logout fails it logs the failure
\* and returns without attempting the data or the cutout logout.
C7_LogoutBestEffortAfterCatalog ==
    req.op = "logout" =>
        /\ outcome = Returned(None)
        /\ Has(trace, Ev("catalog", "logout", TRUE)) =>
              \A e \in Endpoints : Attempted(trace, e, "logout")
        /\ Has(trace, Ev("catalog", "logout", FALSE)) =>
              /\ \A e \in Siblings : ~Attempted(trace, e, "logout")
              /\ Has(errors, ErrTapLogout)
              /\ auth = pre

C7_Witness ==
    /\ req.op = "logout"
    /\ Has(trace, Ev("catalog", "logout", FALSE))
    /\ pre["data"] # Anon
    /\ outcome = Returned(None)

\* C8: whenever no call is in progress the client is not half
\* authenticated: the catalog session is authenticated only if the data and
\* the cutout sessions both are.
C8_NeverHalfAuthenticated ==
    auth["catalog"] # Anon => (auth["data"] # Anon /\ auth["cutout"] # Anon)

----------------------------------------------------------------------------
(* Product listing: properties                                             *)

\* the calls of the last request that went to one of the three endpoints
NetworkCalls == Len(SelectSeq(trace, LAMBDA ev : ev.ep \in Endpoints))

ExactlyOneIdentifier ==
    (req.observation_id = None) # (req.tile_index = None)

ChainLists(chain) == {chain[i].list : i \in 1..Len(chain)}

\* the product type is one the listing chosen by the request can serve
SupportedProductType ==
    /\ req.product_type # None
    /\ ConfLists(req.product_type) \cap
          ChainLists(IF req.tile_index # None THEN TileChain ELSE ObservationChain) # {}

QuerySubmitted ==
    /\ Len(trace) = 1
    /\ trace[1].ep = "catalog"
    /\ trace[1].call = "launch_job"
    /\ trace[1].query.key = (IF req.tile_index # None THEN "tile_index" ELSE "observation_id")
    /\ trace[1].query.id = (IF req.tile_index # None THEN req.tile_index ELSE req.observation_id)

ValidationErrorNoNetwork ==
    /\ outcome.kind = "raised"
    /\ outcome.exc = ValueError
    /\ NetworkCalls = 0

\* C9 as stated: a get_product_list request with exactly one of
\* observation_id and tile_index set proceeds to query submission; with both
\* or neither set it raises a validation error having made no network call.
C9_ExactlyOneIdentifierProceeds ==
    req.op = "get_product_list" =>
        /\ ExactlyOneIdentifier => QuerySubmitted
        /\ ~ExactlyOneIdentifier => ValidationErrorNoNetwork

\* C9 amended: the request proceeds to query submission when exactly one of
\* observation_id and tile_index is set and product_type is a product type
\* that listing supports; when both are set, neither is set, or product_type
\* is missing or unsupported, it raises a validation error having made no
\* network call.
C9_ValidRequestProceeds ==
    req.op = "get_product_list" =>
        /\ (ExactlyOneIdentifier /\ SupportedProductType) => QuerySubmitted
        /\ ~ExactlyOneIdentifier => ValidationErrorNoNetwork
        /\ ~SupportedProductType => ValidationErrorNoNetwork

C9_Witness ==
    /\ req.op = "get_product_list"
    /\ req.observation_id # None
    /\ req.tile_index # None
    /\ req.product_type = "DpdMerBksMosaic"
    /\ outcome = Raised(ValueError, ERROR_MSG_REQUESTED_OBSERVATION_ID_AND_TILE_ID)
    /\ NetworkCalls = 0

----------------------------------------------------------------------------
(* Cutout retrieval: properties                                            *)

RadiusGiven == req.args.radius.type \in {"Quantity", "str"}

OtherArgumentsGiven ==
    /\ req.args.file_path # None
    /\ req.args.instrument # None
    /\ req.args.id # None
    /\ req.args.coordinate.type # "None"

RadiusError == Raised(ValueError, ERROR_MSG_REQUESTED_RADIUS)

\* the call neither contacted the cutout endpoint nor created a directory
NoContactNoDirectory ==
    /\ ~Attempted(trace, "cutout", "load_data")
    /\ ~Attempted(trace, "fs", "makedirs")
    /\ fs = prefs

\* C10 as stated: every get_cutout call with a radius above 0.5 degrees
\* fails with the radius-too-large error without contacting the cutout
\* endpoint or creating a directory, and a radius of exactly 0.5 degrees is
\* accepted.
C10_LargeRadiusRejected ==
    (req.op = "get_cutout" /\ RadiusGiven) =>
        /\ ToDegrees(req.args.radius) > HalfDegree =>
              (outcome = RadiusError /\ NoContactNoDirectory)
        /\ ToDegrees(req.args.radius) = HalfDegree => outcome # RadiusError

\* C10 amended: a get_cutout call with a radius above 0.5 degrees and with
\* file_path, instrument, id and coordinate all given fails with the
\* radius-too-large error; when one of those is None it fails with the
\* missing-argument error instead; either way the cutout endpoint is not
\* contacted and no directory is created.  A radius of exactly 0.5 degrees
\* never gives the radius-too-large error, and with a usable coordinate the
\* call goes on to resolve its output path and contact the cutout endpoint.
C10_LargeRadiusRejectedWhenArgumentsGiven ==
    (req.op = "get_cutout" /\ RadiusGiven) =>
        /\ ToDegrees(req.args.radius) > HalfDegree =>
              /\ NoContactNoDirectory
              /\ OtherArgumentsGiven => outcome = RadiusError
              /\ ~OtherArgumentsGiven =>
                    outcome = Raised(ValueError, ERROR_MSG_REQUESTED_GENERIC)
        /\ ToDegrees(req.args.radius) = HalfDegree =>
              /\ outcome # RadiusError
              /\ (OtherArgumentsGiven /\ req.args.coordinate.type \in {"str", "SkyCoord"}) =>
                    \/ Attempted(trace, "cutout", "load_data")
                    \/ outcome = Raised(OSError, ErrCreateDir)

C10_Witness ==
    /\ req.op = "get_cutout"
    /\ OtherArgumentsGiven
    /\ req.args.radius.type = "Quantity"
    /\ req.args.radius.unit = "arcmin"
    /\ ToDegrees(req.args.radius) > HalfDegree
    /\ req.args.output_file = NoOutputFile
    /\ outcome = RadiusError
    /\ fs = prefs

----------------------------------------------------------------------------
(* Retrieval calls: validation, transfer errors                            *)

RetrievalOps == {"get_observation_products", "get_product", "get_cutout", "get_spectrum"}

\* a required argument of the retrieval call is missing or is not a value
\* the call accepts
MissingOrInvalidArgument ==
    CASE req.op = "get_observation_products" ->
            \/ req.args.id = None
            \/ req.args.product_type \notin {"observation", "mosaic"}
      [] req.op = "get_product" ->
            req.args.file_name = None /\ req.args.product_id = None
      [] req.op = "get_cutout" ->
            \/ ~OtherArgumentsGiven
            \/ ~RadiusGiven
            \/ ToDegrees(req.args.radius) > HalfDegree
            \/ req.args.coordinate.type \notin {"str", "SkyCoord"}
      [] req.op = "get_spectrum" ->
            req.args.source_id = None \/ req.args.schema = None
      [] OTHER -> FALSE

\* no directory was created, nothing was written and no endpoint was asked
\* for a transfer
NoDirectoryNoTransfer ==
    /\ \A i \in 1..Len(trace) : trace[i].call \notin {"makedirs", "load_data"}
    /\ fs = prefs

\* C11: in get_observation_products, get_product, get_cutout and
\* get_spectrum a call with a missing or invalid required argument raises a
\* validation error (ValueError) having created no directory and made no
\* transfer call; a call that created a directory or made a transfer call
\* had all its required arguments.
C11_ValidationBeforeIO ==
    req.op \in RetrievalOps =>
        /\ MissingOrInvalidArgument =>
              /\ outcome.kind = "raised"
              /\ outcome.exc = ValueError
              /\ NoDirectoryNoTransfer
        /\ ~NoDirectoryNoTransfer => ~MissingOrInvalidArgument

\* get_observation_products with an id, an unknown product type and no
\* output file, on a filesystem that already holds files: the call is
\* refused and the output directory it would have generated is not created
C11_Witness ==
    /\ req.op = "get_observation_products"
    /\ req.args.id # None
    /\ req.args.product_type = "NoSuchProduct"
    /\ req.args.output_file = NoOutputFile
    /\ outcome = Raised(ValueError, ERROR_MSG_INVALID_PRODUCT_TYPE)
    /\ trace = <<>>
    /\ fs = prefs
    /\ DOMAIN fs.files # {}

\* the transfer call of the retrieval raised a transport error
TransferRaisedHTTPError ==
    \E i \in 1..Len(trace) :
        trace[i].call = "load_data" /\ trace[i].answer.kind = "HTTPError"

\* no step of the archive normalizer ran
NormalizerNotRun ==
    \A i \in 1..Len(trace) : trace[i].call \notin {"extractall", "listdir", "rename", "walk"}

\* C12: in get_observation_products, get_product, get_cutout and
\* get_spectrum, whenever the transfer call raises a transport error (its
\* status carried directly, nested in a response object, or absent) the call
\* returns None to the caller, raises nothing, and does not run the archive
\* normalizer.
C12_TransferErrorReturnsNone ==
    (req.op \in RetrievalOps /\ TransferRaisedHTTPError) =>
        /\ outcome = Returned(None)
        /\ NormalizerNotRun

----------------------------------------------------------------------------
(* Query operations: transport errors                                      *)

QueryOps == {"launch_job", "launch_job_async", "load_async_job", "search_async_jobs",
             "query_object", "query_object_async", "cone_search", "get_product_list"}

\* a call of the job executor raised a transport error (get_product_list
\* records only that its launch failed, and an HTTPError is how it fails)
ExecutorRaisedHTTPError ==
    \E i \in 1..Len(trace) :
        /\ trace[i].ep = "catalog"
        /\ ~trace[i].ok
        /\ req.op # "get_product_list" => trace[i].answer.kind = "HTTPError"

\* C13: every query operation (launch_job, launch_job_async, load_async_job,
\* search_async_jobs, query_object, query_object_async, cone_search,
\* get_product_list) turns a transport error raised by the job executor into
\* the result None and never raises it to the caller.
C13_QueryErrorsBecomeNone ==
    (req.op \in QueryOps /\ ExecutorRaisedHTTPError) => outcome = Returned(None)

----------------------------------------------------------------------------
(* Error classifier                                                        *)

\* the statuses the classified error carries, directly or in its response
CarriedStatuses == {req.error.code, req.error.status_code} \ {Absent}

\* the error carries the status n, as a number or as its decimal text
StatusIs(n) ==
    /\ CarriedStatuses # {}
    /\ CarriedStatuses \subseteq {IntVal(n), StrVal(ToString(n))}

MessageOf(code) ==
    LET i == CHOOSE j \in 1..Len(StatusChain) : StatusChain[j].code = code
    IN  StatusChain[i].message

\* C14: the classifier maps status 500 to the internal-server-error
\* category and status 501 to the not-implemented category (never to
\* internal server error), and an error with no status whose message is
\* "timeout" to the unknown category carrying that message.
C14_ClassifiesServerErrors ==
    req.op = "handle_http_error" =>
        /\ StatusIs(500) => outcome = Returned(MessageOf("500"))
        /\ StatusIs(501) => outcome = Returned(MessageOf("501"))
        /\ (CarriedStatuses = {} /\ req.error.text = "timeout") =>
              outcome = Returned("Http error detected: timeout")

Digits == {"0", "1", "2", "3", "4", "5", "6", "7", "8", "9"}

\* code occurs in text as a whole number, not as part of a longer one
HasToken(code, text) ==
    \E i \in 1..(Len(text) - Len(code) + 1) :
        /\ SubSeq(text, i, i + Len(code) - 1) = code
        /\ i > 1 => SubSeq(text, i - 1, i - 1) \notin Digits
        /\ i + Len(code) <= Len(text) =>
              SubSeq(text, i + Len(code), i + Len(code)) \notin Digits

\* the error carries no numeric status: what is classified is a text, the
\* status when there is one and the message otherwise
TextClassified ==
    /\ \A s \in CarriedStatuses : s.type = "str" /\ s.v # ""
    /\ Cardinality(CarriedStatuses) <= 1

ClassifiedText ==
    IF CarriedStatuses = {} THEN req.error.text
    ELSE (CHOOSE s \in CarriedStatuses : TRUE).v

\* C15: the classifier matches whole codes, not substrings: a status or
\* message in which a listed code occurs only inside a longer digit string
\* (5001, 4000) is not classified as that code, and a message is classified
\* by the one code it carries, not by an earlier-listed code that occurs in
\* it only as a substring.
C15_ExactTokenMatching ==
    (req.op = "handle_http_error" /\ TextClassified) =>
        \A i \in 1..Len(StatusChain) :
            LET c == StatusChain[i]
            IN  /\ outcome = Returned(c.message) => HasToken(c.code, ClassifiedText)
                /\ (/\ HasToken(c.code, ClassifiedText)
                    /\ \A j \in 1..Len(StatusChain) :
                          j # i => ~HasToken(StatusChain[j].code, ClassifiedText))
                      => outcome = Returned(c.message)

----------------------------------------------------------------------------
(* Archive normalizer                                                      *)

\* the retrieval call downloaded a payload: its transfer call succeeded
Downloaded ==
    /\ req.op \in RetrievalOps
    /\ \E i \in 1..Len(trace) : trace[i].call = "load_data" /\ trace[i].ok

TransferCall == trace[CHOOSE i \in 1..Len(trace) : trace[i].call = "load_data"]

\* what was downloaded, where to, and the directory of that path
Payload     == TransferCall.answer.payload
PayloadPath == TransferCall.output_file
OutputDir   == Dirname(PayloadPath)

\* the canonical output file: the payload's own file name in the output
\* directory
CanonicalPath == Join(OutputDir, <<Basename(PayloadPath)>>)

\* the filesystem as the download left it, before normalization
AfterDownload ==
    WriteFile(IF OutputDir = <<>> THEN prefs ELSE MakeDirs(prefs, OutputDir),
              PayloadPath, Payload)

\* the steps of the directory count
DirectoryConsulted ==
    \E i \in 1..Len(trace) : trace[i].call \in {"listdir", "rename", "walk"}

\* before the call the output directory held nothing
OtherwiseEmpty ==
    \A q \in DOMAIN prefs.files \cup prefs.dirs : ~Under(q, OutputDir)

\* C16: normalizing a downloaded payload that is a plain file (not tar, not
\* zip, not gzip) returns exactly [payloadPath]; the file is neither renamed
\* nor moved, nothing else in the filesystem changes and no directory
\* listing is consulted, whatever else the output directory contains.
C16_PlainFileReturnedAsIs ==
    (Downloaded /\ Payload.kind = "plain") =>
        /\ outcome = ReturnedFiles({PayloadPath})
        /\ fs = AfterDownload
        /\ ~DirectoryConsulted

\* a plain file downloaded to a caller-chosen path in a directory that
\* already holds another file
C16_Witness ==
    /\ Downloaded
    /\ Payload.kind = "plain"
    /\ req.args.output_file # NoOutputFile
    /\ OutputDir # <<>>
    /\ \E q \in DOMAIN prefs.files : Dirname(q) = OutputDir /\ q # PayloadPath
    /\ outcome = ReturnedFiles({PayloadPath})

\* C17: normalizing a payload that is gzip-prefixed but neither tar nor zip
\* returns [payloadPath] directly, skipping the directory count, so the
\* result is [payloadPath] whatever other entries the output directory
\* holds.  Stated by that result: the call returns exactly the payload
\* path, and the payload is still the file at that path.
C17_GzipReturnedDirectly ==
    (Downloaded /\ Payload.kind = "gzip") =>
        /\ outcome = ReturnedFiles({PayloadPath})
        /\ fs = AfterDownload

\* the entries of the archive, as the paths they are extracted to
ExtractedPaths == {Join(OutputDir, m) : m \in Payload.members}

\* C18: normalizing a tar or zip payload with N >= 2 distinctly named
\* entries (none bearing the payload's own file name), downloaded into an
\* otherwise empty output directory, returns exactly N paths, one per
\* extracted entry, none of which has the canonical output filename.
C18_ArchiveEntriesReturned ==
    (/\ Downloaded
     /\ Payload.kind \in {"tar", "zip"}
     /\ Cardinality(Payload.members) >= 2
     /\ \A m \in Payload.members : Basename(m) # Basename(PayloadPath)
     /\ OtherwiseEmpty) =>
        /\ outcome = ReturnedFiles(ExtractedPaths)
        /\ Cardinality(outcome.files) = Cardinality(Payload.members)
        /\ \A p \in outcome.files : Basename(p) # Basename(PayloadPath)

\* C19: normalizing a tar or zip payload with exactly one entry returns
\* exactly one path, the canonical output path, which then holds the
\* extracted entry.
C19_SingleEntryRenamed ==
    (/\ Downloaded
     /\ Payload.kind \in {"tar", "zip"}
     /\ Cardinality(Payload.members) = 1) =>
        /\ outcome = ReturnedFiles({CanonicalPath})
        /\ Exists(fs, CanonicalPath)
        /\ fs.files[CanonicalPath] = PlainFile

\* C20: normalizing an archive payload that extracts to zero files yields
\* the empty list (not None), produced by the multi-entry branch of the
\* directory count (the walk of the output directory).
C20_EmptyArchiveEmptyResult ==
    (/\ Downloaded
     /\ Payload.kind \in {"tar", "zip"}
     /\ Payload.members = {}) =>
        /\ outcome = ReturnedFiles({})
        /\ \E i \in 1..Len(trace) : trace[i].call = "walk"
----------------------------------------------------------------------------
(* Proximity queries                                                       *)

\* the launches the last call made on the job executor
LaunchCalls == {"launch_job", "launch_job_async"}

Submitted ==
    {trace[i] : i \in {j \in DOMAIN trace :
                          trace[j].ep = "catalog" /\ trace[j].call \in LaunchCalls}}

\* ra = 10.0 deg and dec = 20.0 deg, 0.05 deg (3 arcmin), in the units of
\* the model
Ra10Dec20  == [type |-> "SkyCoord", ra_hours |-> 10, dec |-> 20]
ThreeArcmin == [type |-> "Quantity", tenths |-> 30, unit |-> "arcmin"]
Deg005     == HalfDegree \div 10

ConeSearchAtExample ==
    /\ req.op = "cone_search"
    /\ req.args.coordinate = Ra10Dec20
    /\ req.args.radius = ThreeArcmin
    /\ req.ROW_LIMIT = 5

\* C21: a cone search at (ra = 10.0, dec = 20.0) with radius 0.05 deg and
\* ROW_LIMIT 5 submits one query, whose containment predicate is the circle
\* of radius 0.05 deg centred at (10.0, 20.0), which is prefixed with TOP 5
\* and which is ordered ascending by the distance column.
C21_ConeSearchExample ==
    ConeSearchAtExample =>
        /\ Cardinality(Submitted) = 1
        /\ \A ev \in Submitted :
              /\ ev.query.shape = "CIRCLE"
              /\ ev.query.ra = 10 * 15
              /\ ev.query.dec = 20
              /\ ev.query.radius = [given |-> TRUE, deg |-> Deg005]
              /\ ev.query.row_limit = "TOP 5"
              /\ ev.query.order_by = "dist ASC"

C21_Witness == ConeSearchAtExample /\ outcome = Returned("job")
ProximityOps == {"query_object", "query_object_async", "cone_search"}

\* C22: in the proximity queries of query_object (circle and box form) and
\* of cone_search, the submitted query carries the row restriction TOP n
\* exactly when the configured ROW_LIMIT n is positive; with ROW_LIMIT 0 or
\* negative it carries no row restriction.
C22_RowLimitExactlyWhenPositive ==
    req.op \in ProximityOps =>
        \A ev \in Submitted :
            ev.query.row_limit = IF req.ROW_LIMIT > 0
                                 THEN "TOP " \o ToString(req.ROW_LIMIT) ELSE ""

\* the projection the caller asked for: every column, or the caller's
\* columns separated by commas in the caller's order
RECURSIVE CommaList(_)
CommaList(columns) ==
    IF columns = <<>> THEN ""
    ELSE IF Len(columns) = 1 THEN Head(columns)
    ELSE Head(columns) \o "," \o CommaList(Tail(columns))

RequestedProjection == IF req.args.columns = <<>> THEN "*" ELSE CommaList(req.args.columns)

\* C23: in query_object and in cone_search the column projection of the
\* submitted query is * when the caller names no columns, and otherwise the
\* caller's columns as a comma-separated list in the caller's order.
C23_ColumnProjection ==
    req.op \in ProximityOps =>
        \A ev \in Submitted : ev.query.columns = RequestedProjection

----------------------------------------------------------------------------
(* Output directories                                                      *)

\* os.makedirs on the output directory failed during the last retrieval call
DirectoryCreationFailed ==
    /\ req.op \in RetrievalOps
    /\ \E i \in 1..Len(trace) : trace[i].call = "makedirs" /\ ~trace[i].ok

\* C25: in every retrieval operation a failure to create the output
\* directory reaches the caller as an OSError, not as the value None, and no
\* transfer call is made.
C25_DirectoryFailurePropagates ==
    DirectoryCreationFailed =>
        /\ outcome = Raised(OSError, ErrCreateDir)
        /\ \A i \in 1..Len(trace) : trace[i].call # "load_data"

C25_Witness ==
    /\ DirectoryCreationFailed
    /\ req.op = "get_product"
    /\ req.args.output_file = NoOutputFile

----------------------------------------------------------------------------
(* Retrieval calls that share a clock second                               *)

\* how many retrieval calls one behaviour of this specification makes
MaxCalls == 2

\* readings of datetime.now().strftime("%Y%m%d_%H%M%S")
Seconds == Timestamps \cup {"20240101_120001"}

\* one well-formed call of each retrieval operation
CallArgs(op, output_file) ==
    CASE op = "get_observation_products" ->
            [id |-> "13", schema |-> "sedm", product_type |-> "observation",
             product_subtype |-> "STK", filter |-> "VIS", output_file |-> output_file]
      [] op = "get_product" ->
            [file_name |-> "EUC_MER.fits", product_id |-> None, schema |-> "sedm",
             output_file |-> output_file]
      [] op = "get_cutout" ->
            [file_path |-> "EUC_MER.fits", instrument |-> "VIS", id |-> "102018211",
             coordinate |-> Ra10Dec20, radius |-> ThreeArcmin, output_file |-> output_file]
      [] op = "get_spectrum" ->
            [source_id |-> "2417660845403252054", schema |-> "sedm",
             output_file |-> output_file]

RetrievalRun(op, f, a, env) ==
    CASE op = "get_observation_products" -> ObservationProductsRun(f, a, env)
      [] op = "get_product" -> ProductRun(f, a, env)
      [] op = "get_cutout" -> CutoutRun(f, a, env)
      [] op = "get_spectrum" -> SpectrumRun(f, a, env)

CallEnvs ==
    [now : Seconds, mkdirOk : {TRUE},
     transfer : {[kind |-> "ok", payload |-> PlainFile, error |-> NoError],
                 [kind |-> "Exception", payload |-> PlainFile, error |-> NoError]}]

\* one more retrieval call on the filesystem the earlier calls left; the
\* call, the reading of the clock it got and the collaborator calls it made
\* are kept in req.log
RetrievalCall ==
    /\ req.op = "calls"
    /\ Len(req.log) < MaxCalls
    /\ \E op \in RetrievalOps, output_file \in {NoOutputFile, <<"out", "cutout.fits">>},
          env \in CallEnvs :
          LET a == CallArgs(op, output_file)
              r == RetrievalRun(op, fs, a, env)
          IN  FinishRetrieval(
                 [op |-> "calls",
                  log |-> Append(req.log, [op |-> op, args |-> a, now |-> env.now,
                                           trace |-> r.trace])],
                 r)

InitCalls ==
    /\ auth = [e \in Endpoints |-> Anon]
    /\ pre = [e \in Endpoints |-> Anon]
    /\ req = [op |-> "calls", log |-> <<>>]
    /\ outcome = NoOutcome
    /\ trace = <<>>
    /\ errors = <<>>
    /\ fs = EmptyFs
    /\ prefs = EmptyFs

SpecCalls == InitCalls /\ [][RetrievalCall]_vars

\* the output directory and the payload path a logged call resolved to
EventOf(c, call) == c.trace[CHOOSE i \in 1..Len(c.trace) : c.trace[i].call = call]
DirOf(c)         == EventOf(c, "makedirs").path
PayloadPathOf(c) == EventOf(c, "load_data").output_file

\* the operations that name their payload "temp"
FixedNameOps == {"get_product", "get_cutout", "get_spectrum"}

SameSecondNoOutputFile(c, d) ==
    /\ c.args.output_file = NoOutputFile
    /\ d.args.output_file = NoOutputFile
    /\ c.now = d.now

\* C26: two retrieval calls made without an explicit output path within the
\* same clock second resolve to the same output directory, and two such
\* calls to get_product, get_cutout or get_spectrum resolve to the same
\* payload path.
C26_SameSecondSamePath ==
    \A i, j \in DOMAIN req.log :
        (i < j /\ SameSecondNoOutputFile(req.log[i], req.log[j])) =>
            /\ DirOf(req.log[i]) = DirOf(req.log[j])
            /\ (req.log[i].op \in FixedNameOps /\ req.log[j].op \in FixedNameOps) =>
                   PayloadPathOf(req.log[i]) = PayloadPathOf(req.log[j])

\* a cutout downloaded in the second in which a product was, onto the
\* product's file
C26_Witness ==
    /\ Len(req.log) = 2
    /\ SameSecondNoOutputFile(req.log[1], req.log[2])
    /\ req.log[1].op = "get_product"
    /\ req.log[2].op = "get_cutout"
    /\ PayloadPathOf(req.log[1]) \in DOMAIN prefs.files
    /\ outcome = ReturnedFiles({PayloadPathOf(req.log[1])})

----------------------------------------------------------------------------
(* download_file of the ESA utilities                                      *)

\* the most chunks response.iter_content hands out in one download
MaxChunks == 2

DownloadEv(call, ok, arg) == [ep |-> "download", call |-> call, ok |-> ok, arg |-> arg]

ReturnedFilename(p) == [kind |-> "returned", value |-> "filename", filename |-> p]

\* the name download_file writes to: the caller's, else the one after
\* 'filename=' in the Content-Disposition header, else the last component
\* of the url
DownloadFilename(url, filename, content_disposition) ==
    IF filename # NoOutputFile THEN filename
    ELSE IF content_disposition # None THEN <<content_disposition>>
    ELSE <<Basename(url)>>

\* file.write(chunk) for the chunks iter_content hands out before it fails,
\* or for all of them
ChunkWrites(env) ==
    LET n == IF env.failAt = 0 THEN env.chunks ELSE env.failAt - 1
    IN  [i \in 1..n |-> DownloadEv("write", TRUE, i)]

\* download_file with the file opened and closed by hand: f = open(...),
\* the loop, f.close()
DownloadFileRunUnscopedFile(f, a, env) ==
    IF ~env.getOk
    THEN RRun(f, <<DownloadEv("get", FALSE, a.url)>>, <<>>, Raised("ConnectionError", "get"))
    ELSE IF env.status >= 400
    THEN RRun(f, <<DownloadEv("get", TRUE, a.url),
                   DownloadEv("raise_for_status", FALSE, env.status),
                   DownloadEv("close_response", TRUE, a.url)>>,
              <<>>, Raised(HTTPError, "raise_for_status"))
    ELSE LET name == DownloadFilename(a.url, a.filename, env.content_disposition)
             head == <<DownloadEv("get", TRUE, a.url),
                       DownloadEv("raise_for_status", TRUE, env.status)>>
         IN  IF ~env.openOk
             THEN RRun(f, head \o <<DownloadEv("open", FALSE, name),
                                    DownloadEv("close_response", TRUE, a.url)>>,
                       <<>>, Raised(OSError, "open"))
             ELSE LET g == WriteFile(f, name, PlainFile)
                      body == head \o <<DownloadEv("open", TRUE, name)>> \o ChunkWrites(env)
                  IN  IF env.failAt # 0
                      THEN RRun(g, body \o <<DownloadEv("close_response", TRUE, a.url)>>,
                                <<>>, Raised("ConnectionError", "iter_content"))
                      ELSE RRun(g, body \o <<DownloadEv("close_file", TRUE, name),
                                             DownloadEv("close_response", TRUE, a.url)>>,
                                <<>>, ReturnedFilename(name))

\* download_file: the response and the file are each the subject of a with
\* statement, which closes them however its block is left
DownloadFileRun(f, a, env) ==
    IF ~env.getOk
    THEN RRun(f, <<DownloadEv("get", FALSE, a.url)>>, <<>>, Raised("ConnectionError", "get"))
    ELSE IF env.status >= 400
    THEN RRun(f, <<DownloadEv("get", TRUE, a.url),
                   DownloadEv("raise_for_status", FALSE, env.status),
                   DownloadEv("close_response", TRUE, a.url)>>,
              <<>>, Raised(HTTPError, "raise_for_status"))
    ELSE LET name == DownloadFilename(a.url, a.filename, env.content_disposition)
             head == <<DownloadEv("get", TRUE, a.url),
                       DownloadEv("raise_for_status", TRUE, env.status)>>
         IN  IF ~env.openOk
             THEN RRun(f, head \o <<DownloadEv("open", FALSE, name),
                                    DownloadEv("close_response", TRUE, a.url)>>,
                       <<>>, Raised(OSError, "open"))
             ELSE LET g == WriteFile(f, name, PlainFile)
                      body == head \o <<DownloadEv("open", TRUE, name)>> \o ChunkWrites(env)
                                   \o <<DownloadEv("close_file", TRUE, name),
                                        DownloadEv("close_response", TRUE, a.url)>>
                  IN  IF env.failAt # 0
                      THEN RRun(g, body, <<>>, Raised("ConnectionError", "iter_content"))
                      ELSE RRun(g, body, <<>>, ReturnedFilename(name))

DownloadUrls == {<<"host", "data", "a.fits">>}

\* what the session and the filesystem do during one download: whether
\* session.get answers, the status of the response, its Content-Disposition
\* file name, whether the file can be opened, how many chunks the body has
\* and the chunk at which iter_content fails (0: none)
DownloadEnvs ==
    {e \in [getOk : BOOLEAN, status : {200, 404, 500}, content_disposition : {None, "c.fits"},
            openOk : BOOLEAN, chunks : 0..MaxChunks, failAt : 0..MaxChunks] :
        e.failAt <= e.chunks}

\* a behaviour of the download specification is one call of download_file
DownloadFile ==
    /\ req.op = "none"
    /\ \E url \in DownloadUrls, filename \in {NoOutputFile, <<"out", "b.fits">>},
          env \in DownloadEnvs :
          LET a == [url |-> url, filename |-> filename]
          IN  FinishRetrieval([op |-> "download_file", args |-> a, env |-> env],
                              DownloadFileRun(fs, a, env))

SpecDownload == Init /\ [][DownloadFile]_vars

\* how often the last call made the collaborator call `call` with success
Count(call) == Cardinality({i \in 1..Len(trace) : trace[i].call = call /\ trace[i].ok})

\* C27: in download_file the response stream and the destination file are
\* both released on every exit path (normal return, non-success status,
\* error raised while chunks are written), and no destination file is opened
\* when the response status is an error.
C27_DownloadReleasesResources ==
    req.op = "download_file" =>
        /\ Count("close_response") = Count("get")
        /\ Count("close_file") = Count("open")
        /\ (req.env.getOk /\ req.env.status >= 400) =>
               /\ \A i \in 1..Len(trace) : trace[i].call # "open"
               /\ fs = prefs

\* iter_content failed after the first chunk was written
C27_Witness ==
    /\ req.op = "download_file"
    /\ req.env.failAt = 2
    /\ outcome = Raised("ConnectionError", "iter_content")
    /\ Count("open") = 1
    /\ Count("write") = 1

----------------------------------------------------------------------------
(* Totality of the error classifier                                        *)

\* the categories of the classifier: the message of a code of the chain, or
\* the unknown category carrying the text of the error
Categories(error) ==
    {StatusChain[i].message : i \in 1..Len(StatusChain)} \cup
    {"Http error detected: " \o error.text}

\* C28: for a transport error whose status is carried directly, nested in a
\* response object as a number, or absent with only a text, the classifier
\* returns one of its categories and never itself raises.
C28_ClassifierTotal ==
    req.op = "handle_http_error" =>
        /\ outcome.kind = "returned"
        /\ outcome.value \in Categories(req.error)

----------------------------------------------------------------------------
(* Radius or box in object search                                          *)

ObjectSearchOps == {"query_object", "query_object_async"}

\* the arguments besides radius, width and height are ones the call accepts
ValidObjectSearch ==
    /\ req.op \in ObjectSearchOps
    /\ req.args.coordinate.type \in {"str", "SkyCoord"}

RadiusAbsent == req.args.radius.type = "None"

BoxIncomplete == req.args.width.type = "None" \/ req.args.height.type = "None"

\* C29: in query_object and query_object_async, when radius is given the
\* circle query is submitted and width and height are ignored; when radius
\* is absent and width or height is missing, a validation error is raised
\* and no query is submitted.
C29_RadiusOrBox ==
    ValidObjectSearch =>
        /\ RadiusGiven =>
              /\ Cardinality(Submitted) = 1
              /\ \A ev \in Submitted :
                    ev.query = ConeQuery(req.ROW_LIMIT, RequestedProjection,
                                         MainTable, MainTableRa, MainTableDec,
                                         req.args.coordinate.ra_hours * 15,
                                         req.args.coordinate.dec,
                                         RadiusDeg(req.args.radius))
        /\ (RadiusAbsent /\ BoxIncomplete) =>
              /\ outcome.kind = "raised"
              /\ outcome.exc = ValueError
              /\ trace = <<>>

\* a radius given together with a complete box
C29_Witness ==
    /\ ValidObjectSearch
    /\ RadiusGiven
    /\ ~BoxIncomplete
    /\ outcome = Returned("table")

----------------------------------------------------------------------------
(* What a retrieval hands back                                             *)

\* the last retrieval call downloaded a payload and returned a list of paths
SuccessfulRetrieval ==
    /\ Downloaded
    /\ outcome.kind = "returned"
    /\ outcome.value = "files"

\* C30: for every successful retrieval call, also one whose output
\* directory holds other files when the payload is normalized, every
\* returned path is the downloaded payload or a file extracted from it, and
\* the list is not empty when the payload is not an archive.
C30_OnlyPayloadOrItsEntries ==
    SuccessfulRetrieval =>
        /\ \A p \in outcome.files : p = PayloadPath \/ p \in ExtractedPaths
        /\ Payload.kind \notin {"tar", "zip"} => outcome.files # {}

====
